---- MODULE Spec2Model ----
(***************************************************************************)
(* Keysync: the sync engine (Syncer, syncerEntry, OutputDir) and the       *)
(* atomic file writer, modelled as state machines.                         *)
(*                                                                         *)
(*   Spec       the Syncer: the polling loop and the API handlers sharing  *)
(*              one sync mutex, LoadClients, syncerEntry.Sync, cleanup.    *)
(*   SpecWrite  output.WriteFileAtomically step by step, with a reader of  *)
(*              the final path running concurrently.                       *)
(*   SpecCall   one syncerEntry, one OutputDir and the two kinds of client *)
(*              called directly: Write, Validate, SecretList, Sync.        *)
(***************************************************************************)
EXTENDS Integers, Sequences, FiniteSets, TLC

\* ------------------------------------------------------------------------
\* Bounded input domains
\* ------------------------------------------------------------------------

\* Configured tenants; DirName defaults to the client name.
Clients == {"c1", "c2"}

\* Secret names the server may hold for a client.
Names == {"A", "B"}

\* Filenames that occur in a client directory.
Filenames == {"A", "B"}

\* Versions of a secret on the server; 0 stands for "not in the catalog".
Versions == {1, 2}

\* Versions of a client's configuration; 0 stands for "not configured".
CfgVersions == {1, 2}

\* Number of events of the environment in one behaviour: changes of the
\* server's catalog, of the configuration and of files by other processes,
\* failed requests (listing, fetch, write, config load, client build) and
\* ticks of the clock.
MaxEnv == 1

\* Syncer.pollInterval of the configuration, in clock ticks (0: run once)
PollInterval == 1

\* pollIntervalFailureThresholdMultiplier
FailureThresholdMultiplier == 10

Threads == {"poller", "api"}

\* Names directly under SecretsDir that are no client's directory name
TopNames == {"old", "README"}

\* Absent file, SyncState entry, registry entry, directory
NoFile == [nofile |-> TRUE]
NoState == [nostate |-> TRUE]
NoEntry == [noentry |-> TRUE]
NoDir == [nodir |-> TRUE]
NoOverride == "NoOverride"
NilError == [nil |-> TRUE]

\* ------------------------------------------------------------------------
\* Secret (secret.go)
\* ------------------------------------------------------------------------

\* The secrets a server can return: name and version determine all fields.
\* A changes content and mode between versions; B is renamed onto "A" by a
\* filename override in its second version and carries an override with a
\* path separator in its third.  The secret named "a/b" has a separator in
\* its Name, and in its second version a FilenameOverride without one.
SecretOf(name, ver) ==
  IF name = "A"
  THEN [Name |-> "A",
        Checksum |-> IF ver = 1 THEN "a1" ELSE "a2",
        Content |-> IF ver = 1 THEN "hello" ELSE "hello!",
        FilenameOverride |-> NoOverride,
        Mode |-> IF ver = 1 THEN <<>> ELSE <<0, 6, 4, 4>>,
        Owner |-> "", Group |-> ""]
  ELSE IF name = "B"
  THEN [Name |-> "B",
        Checksum |-> IF ver = 1 THEN "b1" ELSE "b2",
        Content |-> "world",
        FilenameOverride |-> IF ver = 1 THEN NoOverride
                             ELSE IF ver = 2 THEN "A" ELSE "../x",
        Mode |-> <<0, 4, 0, 0>>,
        Owner |-> "svc", Group |-> "svc"]
  ELSE [Name |-> name,
        Checksum |-> IF ver = 1 THEN "s1" ELSE "s2",
        Content |-> "slash",
        FilenameOverride |-> IF ver = 1 THEN NoOverride ELSE "B",
        Mode |-> <<>>,
        Owner |-> "", Group |-> ""]

\* The characters of the names that occur as a secret's Name or
\* FilenameOverride or as a directory name.
Chars(name) ==
  CASE name = "" -> <<>>
    [] name = "." -> <<".">>
    [] name = ".." -> <<".", ".">>
    [] name = "a/b" -> <<"a", "/", "b">>
    [] name = "../x" -> <<".", ".", "/", "x">>
    [] name = "/x" -> <<"/", "x">>
    [] name = "a//b" -> <<"a", "/", "/", "b">>
    [] name = "a/../../b" -> <<"a", "/", ".", ".", "/", ".", ".", "/", "b">>
    [] name = "secrets" -> <<"secrets">>
    [] name = "c1" -> <<"c", "1">>
    [] name = "c2" -> <<"c", "2">>
    [] OTHER -> <<name>>

\* filepath.Separator
Separator == "/"

\* strings.ContainsRune(name, filepath.Separator)
ContainsRune(name, r) == \E i \in DOMAIN Chars(name) : Chars(name)[i] = r

\* Secret.Filename: the override wins; a path separator is an error.
Filename(s) ==
  LET name == IF s.FilenameOverride # NoOverride THEN s.FilenameOverride ELSE s.Name
  IN  IF ContainsRune(name, Separator)
      THEN [ok |-> FALSE, name |-> ""]
      ELSE [ok |-> TRUE, name |-> name]

RECURSIVE ParseOctal(_, _, _)
\* strconv.ParseUint(mode, 8, 16): digits is the string as a sequence of
\* digit values; -1 is a parse error.
ParseOctal(digits, i, acc) ==
  IF i > Len(digits) THEN acc
  ELSE IF digits[i] > 7 \/ acc * 8 + digits[i] >= 65536 THEN -1
  ELSE ParseOctal(digits, i + 1, acc * 8 + digits[i])

RECURSIVE BitAnd(_, _)
BitAnd(a, b) ==
  IF a = 0 \/ b = 0 THEN 0
  ELSE (a % 2) * (b % 2) + 2 * BitAnd(a \div 2, b \div 2)

\* 0444: the read bits
ReadBits == 292

\* A ModeValue that keeps every bit of the requested mode
ModeValueUnmasked(s) ==
  LET mode == IF s.Mode = <<>> THEN <<0, 4, 4, 0>> ELSE s.Mode
      v == ParseOctal(mode, 1, 0)
  IN  IF v < 0 THEN [ok |-> FALSE, mode |-> 0]
      ELSE [ok |-> TRUE, mode |-> v]

\* unix.S_IFREG
S_IFREG == 32768

\* Secret.ModeValue: default "0440", parse as octal, keep only read bits,
\* mark as a regular file.
ModeValue(s) ==
  LET mode == IF s.Mode = <<>> THEN <<0, 4, 4, 0>> ELSE s.Mode
      v == ParseOctal(mode, 1, 0)
  IN  IF v < 0 THEN [ok |-> FALSE, mode |-> 0]
      ELSE [ok |-> TRUE, mode |-> BitAnd(v, ReadBits) + S_IFREG]

\* os.FileMode.Perm: the permission bits, which are what File.Chmod applies
Perm(m) == m % 512

\* ownership.Lookup: the ids the user database knows; -1 is a failed lookup.
LookupID(name) == IF name = "svc" THEN 1001 ELSE -1

\* The client's default ownership (NewOwnership with no names: root).
DefaultOwnership == [UID |-> 0, GID |-> 0]

\* Secret.OwnershipValue: per-secret names override the fallback when they
\* resolve.
OwnershipValue(s, fallback) ==
  [UID |-> IF s.Owner # "" /\ LookupID(s.Owner) >= 0 THEN LookupID(s.Owner) ELSE fallback.UID,
   GID |-> IF s.Group # "" /\ LookupID(s.Group) >= 0 THEN LookupID(s.Group) ELSE fallback.GID]

\* Config.ChownFiles
ChownFiles == TRUE

\* sha256.Sum256, collision-free on the bounded contents
Sha256(content) == <<"sha256", content>>

\* ------------------------------------------------------------------------
\* OutputDir (output.go) over one client directory
\*   files : [Filenames -> NoFile or [content, mode, uid, gid]]
\* ------------------------------------------------------------------------

EmptyDir == [f \in Filenames |-> NoFile]

\* output.GetFileInfo
GetFileInfo(file) == [Mode |-> file.mode, UID |-> file.uid, GID |-> file.gid]

\* A Validate that does not read the file's content
ValidateNoContent(secret, state, files) ==
  LET fn == Filename(secret) IN
  /\ state.Checksum = secret.Checksum
  /\ fn.ok
  /\ state.Owner = secret.Owner /\ state.Group = secret.Group /\ state.Mode = secret.Mode
  /\ files # NoDir
  /\ files[fn.name] # NoFile
  /\ state.FileInfo = GetFileInfo(files[fn.name])

\* OutputDir.Validate
Validate(secret, state, files) ==
  LET fn == Filename(secret) IN
  /\ state.Checksum = secret.Checksum
  /\ fn.ok
  /\ state.Owner = secret.Owner /\ state.Group = secret.Group /\ state.Mode = secret.Mode
  /\ files # NoDir
  /\ files[fn.name] # NoFile
  /\ state.FileInfo = GetFileInfo(files[fn.name])
  /\ state.ContentHash = Sha256(files[fn.name].content)

\* An OutputDir.Write that opens the file itself: a failed write leaves it
\* empty
WriteInPlace(files, secret, wrOk) ==
  LET fn == Filename(secret)
      mv == ModeValue(secret)
      owner == OwnershipValue(secret, DefaultOwnership)
      file == [content |-> IF wrOk = "ok" THEN secret.Content ELSE "", mode |-> Perm(mv.mode),
               uid |-> IF ChownFiles THEN owner.UID ELSE 0,
               gid |-> IF ChownFiles THEN owner.GID ELSE 0]
      dir == IF files = NoDir THEN EmptyDir ELSE files
  IN  IF ~fn.ok \/ ~mv.ok
      THEN [ok |-> FALSE, files |-> files, state |-> NoState]
      ELSE [ok |-> wrOk = "ok",
            files |-> [dir EXCEPT ![fn.name] = file],
            state |-> [ContentHash |-> Sha256(secret.Content),
                       Checksum |-> secret.Checksum,
                       FileInfo |-> GetFileInfo(file),
                       Owner |-> secret.Owner,
                       Group |-> secret.Group,
                       Mode |-> secret.Mode]]

\* How WriteFileAtomically ends: "ok", "nodir" (its os.MkdirAll of the
\* client directory fails, which it cannot when the directory exists) or
\* "error" (a later step fails: OpenFile, Chown, Chmod, the filesystem
\* check, Write, Stat or Rename).
WriteResults == {"ok", "nodir", "error"}

\* OutputDir.Write: derive filename and mode, resolve ownership, write the
\* file atomically (wrOk: how WriteFileAtomically ends), return the state.
\* A bad filename or mode fails before anything is touched.  A failed
\* WriteFileAtomically leaves every file as it was; when the client
\* directory was missing and the failure came after os.MkdirAll, the
\* directory is there afterwards, empty (the temporary file is removed).
Write(files, secret, wrOk) ==
  LET fn == Filename(secret)
      mv == ModeValue(secret)
      owner == OwnershipValue(secret, DefaultOwnership)
      file == [content |-> secret.Content, mode |-> Perm(mv.mode),
               uid |-> IF ChownFiles THEN owner.UID ELSE 0,
               gid |-> IF ChownFiles THEN owner.GID ELSE 0]
      dir == IF files = NoDir THEN EmptyDir ELSE files
  IN  IF ~fn.ok \/ ~mv.ok \/ wrOk = "nodir"
      THEN [ok |-> FALSE, files |-> files, state |-> NoState]
      ELSE IF wrOk # "ok"
      THEN [ok |-> FALSE, files |-> dir, state |-> NoState]
      ELSE [ok |-> TRUE,
            files |-> [dir EXCEPT ![fn.name] = file],
            state |-> [ContentHash |-> Sha256(secret.Content),
                       Checksum |-> secret.Checksum,
                       FileInfo |-> GetFileInfo(file),
                       Owner |-> secret.Owner,
                       Group |-> secret.Group,
                       Mode |-> secret.Mode]]

\* OutputDir.Remove: os.Remove fails when the file does not exist.
Remove(files, name) ==
  IF files = NoDir \/ files[name] = NoFile
  THEN [ok |-> FALSE, files |-> files]
  ELSE [ok |-> TRUE, files |-> [files EXCEPT ![name] = NoFile]]

\* A Cleanup that removes nothing
CleanupNothing(files, known, rmOut) ==
  IF files = NoDir
  THEN [ok |-> FALSE, files |-> files, deleted |-> 0]
  ELSE [ok |-> TRUE, files |-> files, deleted |-> 0]

\* OutputDir.Cleanup: os.Remove of every entry of the directory whose name
\* is not a key of secrets.  rmOut[f] is how os.Remove of entry f ends; an
\* entry it cannot remove (a subdirectory that is not empty, say) is logged
\* and left, and is not counted.  A directory that cannot be read is the
\* one error Cleanup returns.
Cleanup(files, known, rmOut) ==
  IF files = NoDir
  THEN [ok |-> FALSE, files |-> files, deleted |-> 0]
  ELSE [ok |-> TRUE,
        files |-> [f \in Filenames |->
                     IF f \in known \/ rmOut[f] # "ok" THEN files[f] ELSE NoFile],
        deleted |-> Cardinality({f \in Filenames :
                                   f \notin known /\ files[f] # NoFile /\ rmOut[f] = "ok"})]

\* ------------------------------------------------------------------------
\* Client.SecretList and Client.Secret (client.go) against a server whose
\* catalog for the client is srv : [Names -> 0 or a version]
\* ------------------------------------------------------------------------

Listed(srv) == {n \in DOMAIN srv : srv[n] # 0}

RECURSIVE IndexByFilename(_, _, _)
\* for _, secret := range secretList: a bad filename or a filename already
\* in the map fails the listing; secrets is the map built so far.
IndexByFilename(secretList, i, secrets) ==
  IF i > Len(secretList) THEN [ok |-> TRUE, secrets |-> secrets]
  ELSE LET fn == Filename(secretList[i])
       IN  IF ~fn.ok THEN [ok |-> FALSE, secrets |-> <<>>]
           ELSE IF fn.name \in DOMAIN secrets THEN [ok |-> FALSE, secrets |-> <<>>]
           ELSE IndexByFilename(secretList, i + 1,
                  [f \in DOMAIN secrets \cup {fn.name} |->
                     IF f = fn.name THEN secretList[i] ELSE secrets[f]])

\* What the server sends for a catalog: the listed secrets in some order.
ListOf(srv) ==
  LET n == Cardinality(Listed(srv))
      q == CHOOSE q \in [1..n -> Listed(srv)] : \A i, j \in 1..n : q[i] = q[j] => i = j
  IN  [i \in 1..n |-> SecretOf(q[i], srv[q[i]])]

FilenameOk(s) == Filename(s).ok

\* A SecretList that leaves out the secrets whose filename is bad
SecretListSkipInvalid(srv, listOk) ==
  IF ~listOk THEN [ok |-> FALSE, secrets |-> <<>>]
  ELSE IndexByFilename(SelectSeq(ListOf(srv), FilenameOk), 1, <<>>)

\* KeywhizHTTPClient.SecretList: a failed request, a bad filename or two
\* secrets with one filename fail the whole listing; otherwise the map from
\* filename to secret metadata.
SecretList(srv, listOk) ==
  IF ~listOk THEN [ok |-> FALSE, secrets |-> <<>>]
  ELSE IndexByFilename(ListOf(srv), 1, <<>>)

RECURSIVE BundleIndex(_, _, _)
\* NewBackupBundleClient: for _, secret := range parsed: a bad filename
\* fails the constructor; client.secrets[name] = secret otherwise.
BundleIndex(parsed, i, secrets) ==
  IF i > Len(parsed) THEN [ok |-> TRUE, secrets |-> secrets]
  ELSE LET fn == Filename(parsed[i])
       IN  IF ~fn.ok THEN [ok |-> FALSE, secrets |-> <<>>]
           ELSE BundleIndex(parsed, i + 1,
                  [f \in DOMAIN secrets \cup {fn.name} |->
                     IF f = fn.name THEN parsed[i] ELSE secrets[f]])

\* BackupBundleClient.SecretList of a client built from the bundle parsed
BundleSecretList(parsed) == BundleIndex(parsed, 1, <<>>)

\* BackupBundleClient.Secret: s, ok := c.secrets[name], secrets being the
\* map NewBackupBundleClient built.
BundleSecret(secrets, name) ==
  IF name \in DOMAIN secrets
  THEN [ok |-> TRUE, secret |-> secrets[name]]
  ELSE [ok |-> FALSE, secret |-> NoState]

\* A client for which a 404 is an error like any other
SecretNoDeleted(srv, name, out) ==
  IF out = "ok" /\ srv[name] # 0
  THEN [err |-> "none", secret |-> SecretOf(name, srv[name])]
  ELSE [err |-> "error", secret |-> NoState]

\* A client for which every failed request is a SecretDeleted
SecretAllDeleted(srv, name, out) ==
  IF out = "ok" /\ srv[name] # 0
  THEN [err |-> "none", secret |-> SecretOf(name, srv[name])]
  ELSE [err |-> "deleted", secret |-> NoState]

\* KeywhizHTTPClient.Secret: out is what the server answers to the request:
\* "ok" (200), "deleted" (404, SecretDeleted) or "error" (anything else).
Secret(srv, name, out) ==
  IF out = "ok" /\ srv[name] # 0
  THEN [err |-> "none", secret |-> SecretOf(name, srv[name])]
  ELSE IF out = "error" THEN [err |-> "error", secret |-> NoState]
  ELSE [err |-> "deleted", secret |-> NoState]

\* ------------------------------------------------------------------------
\* syncerEntry.Sync (syncer.go)
\* ------------------------------------------------------------------------

ZeroUpdated == [Added |-> 0, Changed |-> 0, Deleted |-> 0]

\* Iteration orders of a Go map over filenames
Orders == {o \in [1..Cardinality(Filenames) -> Filenames] :
             \A i, j \in 1..Cardinality(Filenames) : o[i] = o[j] => i = j}

\* A Sync that trusts its SyncState without looking at the file
StillValidByChecksum(meta, st, files, f) ==
  st[f] # NoState /\ st[f].Checksum = meta.Checksum

\* A Sync that asks the server for every listed secret
StillValidNever(meta, st, files, f) == FALSE

\* if state, present := entry.SyncState[filename]; present {
\*   if entry.output.Validate(&secretMetadata, state) { continue } }
StillValid(meta, st, files, f) == st[f] # NoState /\ Validate(meta, st[f], files)

\* The result wr of a Write as Sync finds it when it validates the file it
\* has just written: the file as written, or with another content if
\* another process got at it in between (meddle).
Meddled(wr, name, meddle) ==
  IF wr.ok /\ name \in meddle
  THEN [wr EXCEPT !.files = [@ EXCEPT ![name].content = "meddled"]]
  ELSE wr

\* One iteration of the fetch loop that stores the state of a written file
\* without validating it
SyncOneNoValidate(acc, srv, secrets, f, getOut, wrOk) ==
  LET meta == secrets[f]
      got == Secret(srv, meta.Name, getOut)
      w == Meddled(Write(acc.files, got.secret, wrOk), Filename(got.secret).name, acc.meddle)
      opGet == [op |-> "get", file |-> f, ok |-> got.err = "none", out |-> got.err]
      opWrite == [op |-> "write", file |-> Filename(got.secret).name, ok |-> w.ok, out |-> ""]
  IN  IF StillValid(meta, acc.st, acc.files, f)
      THEN acc
      ELSE IF got.err = "deleted"
      THEN [acc EXCEPT !.pending = Append(@, f), !.ops = Append(@, opGet)]
      ELSE IF got.err # "none"
      THEN [acc EXCEPT !.ops = Append(@, opGet)]
      ELSE IF ~w.ok
      THEN [acc EXCEPT !.files = w.files, !.ops = @ \o <<opGet, opWrite>>]
      ELSE [acc EXCEPT !.files = w.files,
                       !.st = [@ EXCEPT ![f] = w.state],
                       !.updated = [@ EXCEPT !.Added = @ + 1],
                       !.ops = @ \o <<opGet, opWrite>>]

\* One iteration of the fetch loop for listed filename f.
\*   acc = [st, files, pending, updated, ops, meddle]
SyncOne(acc, srv, secrets, f, getOut, wrOk) ==
  LET meta == secrets[f]
      got == Secret(srv, meta.Name, getOut)
      w == Meddled(Write(acc.files, got.secret, wrOk), Filename(got.secret).name, acc.meddle)
      opGet == [op |-> "get", file |-> f, ok |-> got.err = "none", out |-> got.err]
      opWrite == [op |-> "write", file |-> Filename(got.secret).name, ok |-> w.ok, out |-> ""]
  IN  IF StillValid(meta, acc.st, acc.files, f)
      THEN acc
      ELSE IF got.err = "deleted"
      THEN [acc EXCEPT !.pending = Append(@, f), !.ops = Append(@, opGet)]
      ELSE IF got.err # "none"
      THEN [acc EXCEPT !.ops = Append(@, opGet)]
      ELSE IF ~w.ok
      THEN [acc EXCEPT !.files = w.files, !.ops = @ \o <<opGet, opWrite>>]
      ELSE IF ~Validate(got.secret, w.state, w.files)
      THEN [acc EXCEPT !.files = w.files,
                       !.st = [@ EXCEPT ![f] = NoState],
                       !.ops = @ \o <<opGet, opWrite>>]
      ELSE [acc EXCEPT !.files = w.files,
                       !.st = [@ EXCEPT ![f] = w.state],
                       !.updated = [@ EXCEPT !.Added = @ + 1],
                       !.ops = @ \o <<opGet, opWrite>>]

RECURSIVE FetchLoop(_, _, _, _, _, _, _)
\* for filename, secretMetadata := range secrets
FetchLoop(acc, srv, secrets, order, i, getOut, wrOut) ==
  IF i > Len(order) THEN acc
  ELSE IF order[i] \notin DOMAIN secrets
  THEN FetchLoop(acc, srv, secrets, order, i + 1, getOut, wrOut)
  ELSE FetchLoop(SyncOne(acc, srv, secrets, order[i], getOut[order[i]], wrOut[order[i]]),
                 srv, secrets, order, i + 1, getOut, wrOut)

\* A Sync that keeps the state of what is no longer listed
StaleLoopNone(acc, secrets, order, i) == acc

RECURSIVE StaleLoop(_, _, _, _)
\* for filename := range entry.SyncState: queue state no longer listed
StaleLoop(acc, secrets, order, i) ==
  IF i > Len(order) THEN acc
  ELSE IF acc.st[order[i]] # NoState /\ order[i] \notin DOMAIN secrets
  THEN StaleLoop([acc EXCEPT !.pending = Append(@, order[i])], secrets, order, i + 1)
  ELSE StaleLoop(acc, secrets, order, i + 1)

RECURSIVE DeleteLoop(_, _)
\* for _, filename := range pendingDeletions
DeleteLoop(acc, i) ==
  IF i > Len(acc.pending) THEN acc
  ELSE LET f == acc.pending[i]
           r == Remove(acc.files, f)
       IN  DeleteLoop([acc EXCEPT !.st = [@ EXCEPT ![f] = NoState],
                                  !.files = r.files,
                                  !.updated = [@ EXCEPT !.Deleted = IF r.ok THEN @ + 1 ELSE @],
                                  !.ops = Append(@, [op |-> "remove", file |-> f, ok |-> r.ok, out |-> ""])],
                      i + 1)

\* The entries a sweep is asked to remove and os.Remove fails on
Left(files, known, rmOut) ==
  IF files = NoDir THEN {}
  ELSE {f \in Filenames \ known : files[f] # NoFile /\ rmOut[f] # "ok"}

\* A final sweep that takes every file for a stray one
SweepStepAll(acc, secrets, rmOut) ==
  LET c == Cleanup(acc.files, {}, rmOut)
  IN  [acc EXCEPT !.files = c.files,
                  !.updated = [@ EXCEPT !.Deleted = @ + c.deleted],
                  !.ops = Append(@, [op |-> "cleanup", file |-> "", ok |-> c.ok, out |-> "",
                                     left |-> Left(acc.files, DOMAIN secrets, rmOut)])]

\* The final sweep of the client directory
SweepStep(acc, secrets, rmOut) ==
  LET c == Cleanup(acc.files, DOMAIN secrets, rmOut)
  IN  [acc EXCEPT !.files = c.files,
                  !.updated = [@ EXCEPT !.Deleted = @ + c.deleted],
                  !.ops = Append(@, [op |-> "cleanup", file |-> "", ok |-> c.ok, out |-> "",
                                     left |-> Left(acc.files, DOMAIN secrets, rmOut)])]

\* A Sync that deletes what is no longer listed before it fetches
SyncDeleteFirst(st, files, srv, listOk, getOut, wrOut, order) ==
  LET l == SecretList(srv, listOk)
      acc0 == [st |-> st, files |-> files, pending |-> <<>>,
               updated |-> ZeroUpdated, ops |-> <<>>, meddle |-> {}]
      acc1 == DeleteLoop(StaleLoop(acc0, l.secrets, order, 1), 1)
      acc2 == FetchLoop([acc1 EXCEPT !.pending = <<>>], srv, l.secrets, order, 1, getOut, wrOut)
      acc3 == DeleteLoop(acc2, 1)
      acc4 == SweepStep(acc3, l.secrets, wrOut)
  IN  IF ~l.ok
      THEN [err |-> TRUE, st |-> st, files |-> files, updated |-> ZeroUpdated,
            ops |-> <<>>, secrets |-> <<>>]
      ELSE [err |-> FALSE, st |-> acc4.st, files |-> acc4.files,
            updated |-> acc4.updated, ops |-> acc4.ops, secrets |-> l.secrets]

\* A Sync that takes a failed listing for an empty catalog
SyncListErrorIgnored(st, files, srv, listOk, getOut, wrOut, order) ==
  LET l == SecretList(srv, listOk)
      acc0 == [st |-> st, files |-> files, pending |-> <<>>,
               updated |-> ZeroUpdated, ops |-> <<>>, meddle |-> {}]
      acc1 == FetchLoop(acc0, srv, l.secrets, order, 1, getOut, wrOut)
      acc2 == StaleLoop(acc1, l.secrets, order, 1)
      acc3 == DeleteLoop(acc2, 1)
      acc4 == SweepStep(acc3, l.secrets, wrOut)
  IN  [err |-> FALSE, st |-> acc4.st, files |-> acc4.files,
       updated |-> acc4.updated, ops |-> acc4.ops, secrets |-> l.secrets]

\* syncerEntry.Sync: list, fetch and write what is stale, then delete.
\*   st    the entry's SyncState, files the client directory
\*   srv   the server's catalog, listOk/getOut/wrOut what the server and
\*         the filesystem answer, order the map iteration order
\*   wrOut[f] is the filesystem's answer for filename f: to the write of f
\*         when f is listed, to the sweep's os.Remove of f when it is not
\*         (no Sync does both to one filename)
\*   meddle  the files another process changes right after they are written
SyncMeddled(st, files, srv, listOk, getOut, wrOut, order, meddle) ==
  LET l == SecretList(srv, listOk)
      acc0 == [st |-> st, files |-> files, pending |-> <<>>,
               updated |-> ZeroUpdated, ops |-> <<>>, meddle |-> meddle]
      acc1 == FetchLoop(acc0, srv, l.secrets, order, 1, getOut, wrOut)
      acc2 == StaleLoop(acc1, l.secrets, order, 1)
      acc3 == DeleteLoop(acc2, 1)
      acc4 == SweepStep(acc3, l.secrets, wrOut)
  IN  IF ~l.ok
      THEN [err |-> TRUE, st |-> st, files |-> files, updated |-> ZeroUpdated,
            ops |-> <<>>, secrets |-> <<>>]
      ELSE [err |-> FALSE, st |-> acc4.st, files |-> acc4.files,
            updated |-> acc4.updated, ops |-> acc4.ops, secrets |-> l.secrets]

\* syncerEntry.Sync with no other process at the files while it runs
Sync(st, files, srv, listOk, getOut, wrOut, order) ==
  SyncMeddled(st, files, srv, listOk, getOut, wrOut, order, {})

\* ------------------------------------------------------------------------
\* The Syncer (syncer.go) and the API handlers (api.go)
\* ------------------------------------------------------------------------

VARIABLES
  cfg,            \* [Clients -> 0 or config version]: what Config.LoadClients reads
  server,         \* [Clients -> [Names -> 0 or version]]: the server's catalogs
  disk,           \* [Clients -> NoDir or files]: the directories under SecretsDir
  clients,        \* Syncer.clients: [Clients -> NoEntry or [config, SyncState]]
  syncMutex,      \* Syncer.syncMutex: "free" or the thread holding it
  pc,             \* [Threads -> position]
  loc,            \* [Threads -> locals of RunOnce / syncOne]
  lastSuccessAt,  \* Syncer.lastSuccessAt (0: zero time)
  now,            \* the clock
  envSteps,       \* changes made by the environment so far
  lastError,      \* Syncer.lastError: what mostRecentError() returns
  top,            \* [TopNames -> "none", "file", "dir"]: what else is under SecretsDir
  quiet,          \* what has happened since the last pass of RunOnce began or ended
  ev              \* what the last step did (inputs, results, the state before)

syncVars == <<cfg, server, disk, clients, syncMutex, pc, loc, lastSuccessAt,
              now, envSteps, lastError, top, quiet, ev>>

\* The files of one client directory as WriteFileAtomically and a reader of
\* the final path see them (output/write.go, taken step by step below).
VARIABLES
  dirent,         \* [{"final", "tmp"} -> 0 or inode]: fullPath and fullPath+randSuffix
  inode,          \* [Inodes -> NoFile or [content, mode, uid, gid]]
  wr,             \* the call of WriteFileAtomically: position, arguments, f, result
  rd              \* the reader: position, open file, what it read

writeVars == <<dirent, inode, wr, rd>>

\* One syncerEntry with its OutputDir and its clients, called directly.
VARIABLES
  entry,          \* [st, files, syncs]: the entry's SyncState, its directory, calls of Sync
  out,            \* an OutputDir after one Write: [files, secret, state, changed]
  call            \* the last call: operation, arguments, results

callVars == <<entry, out, call>>

VARIABLES
  bk,        \* the secrets directory, the sync mutex and the last backup, for
             \* the interplay of a sync pass and POST /backup
  pair       \* the files at BackupPath and BackupKeyPath and the calls of
             \* FileBackup.Backup under way

backupVars == <<bk, pair>>

\* History of the passes, kept for the properties of two passes in a row:
\* q is
\*   "no"        something changed or failed since the last complete pass
\*   "trying"    a pass is running, nothing has failed in it so far
\*   "faulted"   a pass is running or was cut short, something failed in it
\*   "errfree"   the last pass returned no error, but a failure was swallowed
\*   "retrying"  the pass after an "errfree" one is running, nothing failed
\*   "yes"       the last complete pass returned no error, nothing failed in
\*               it, and nothing changed or failed since
\* and failed, for "errfree" and "retrying", the pairs of a client and a
\* filename that the "errfree" pass logged a failure for.
Quiet(q) == [q |-> q, failed |-> {}]

Disturbed(h) ==
  IF h.q \in {"trying", "retrying", "faulted"} THEN Quiet("faulted") ELSE Quiet("no")

Begun(h) ==
  IF h.q \in {"no", "faulted"} THEN Quiet("trying")
  ELSE IF h.q = "errfree" THEN [h EXCEPT !.q = "retrying"] ELSE h

Ended(h, errors, failed) ==
  IF errors # <<>> THEN Quiet("no")
  ELSE IF h.q \in {"trying", "retrying"} THEN Quiet("yes")
  ELSE IF h.q = "faulted" THEN [q |-> "errfree", failed |-> failed] ELSE h

NoSyncState == [f \in Filenames |-> NoState]

\* Locals of RunOnce and syncOne: pendingCleanup, the entries of the range
\* loop and those already visited, errors, updated; and what each visited
\* entry's Sync returned (failed, catalogs) and the configured clients
\* that could not be built (unbuilt).
IdleLoc == [target |-> "", pending |-> {}, actives |-> {}, done |-> {},
            failed |-> {}, catalogs |-> {}, errors |-> <<>>,
            updated |-> ZeroUpdated, status |-> 0, unbuilt |-> {}]

Active(cl) == {c \in Clients : cl[c] # NoEntry}

\* Updated.Add
Add(u, rhs) ==
  [Added |-> u.Added + rhs.Added,
   Changed |-> u.Changed + rhs.Changed,
   Deleted |-> u.Deleted + rhs.Changed]

\* Every fetch and every write of the Sync succeeded
Complete(ops) == \A i \in 1..Len(ops) : ops[i].op \in {"get", "write"} => ops[i].ok

\* The filenames whose fetch or write the Sync logged as failed
Lost(ops) ==
  {ops[i].file : i \in {j \in 1..Len(ops) : ops[j].op \in {"get", "write"} /\ ~ops[j].ok}}

\* The entries the sweep of the Sync logged as not removed
Stuck(ops) ==
  UNION {ops[i].left : i \in {j \in 1..Len(ops) : ops[j].op = "cleanup"}}

\* RunOnce giving up at the first entry whose Sync fails
AfterSyncAbort(l, c, r) ==
  [l EXCEPT !.done = IF r.err THEN l.actives ELSE @ \cup {c},
            !.failed = IF r.err THEN @ \cup {c} ELSE @,
            !.catalogs = IF r.err THEN @
                         ELSE @ \cup {[client |-> c, names |-> DOMAIN r.secrets,
                                       complete |-> Complete(r.ops),
                                       lost |-> Lost(r.ops), stuck |-> Stuck(r.ops),
                                       errsBefore |-> Len(l.errors),
                                       updated |-> r.updated]},
            !.errors = IF r.err THEN Append(@, [src |-> "list", client |-> c]) ELSE @,
            !.updated = Add(@, r.updated)]

\* RunOnce, the body of the loop over the entries after entry.Sync returned:
\* record the error and go on with the next entry, add the counts.
AfterSync(l, c, r) ==
  [l EXCEPT !.done = @ \cup {c},
            !.failed = IF r.err THEN @ \cup {c} ELSE @,
            !.catalogs = IF r.err THEN @
                         ELSE @ \cup {[client |-> c, names |-> DOMAIN r.secrets,
                                       complete |-> Complete(r.ops),
                                       lost |-> Lost(r.ops), stuck |-> Stuck(r.ops),
                                       errsBefore |-> Len(l.errors),
                                       updated |-> r.updated]},
            !.errors = IF r.err THEN Append(@, [src |-> "list", client |-> c]) ELSE @,
            !.updated = Add(@, r.updated)]

\* A load that never reloads the certificates of the clients it keeps
ReloadedNone(cl, conf) == {}

\* Syncer.LoadClients, the branch of an entry that exists with the same
\* config: the clients whose Client.RebuildClient is invoked.
Reloaded(cl, conf) ==
  {c \in Clients : conf[c] # 0 /\ cl[c] # NoEntry /\ cl[c].config = conf[c]}

\* Syncer.LoadClients and buildClient: keep entries whose config is
\* unchanged, build the others (buildOk[c]: whether buildClient succeeds),
\* move entries no longer configured to the pending cleanup.
LoadClients(cl, conf, dsk, buildOk) ==
  LET rebuilt(c) == conf[c] # 0 /\ ~(cl[c] # NoEntry /\ cl[c].config = conf[c]) /\ buildOk[c]
      cl1 == [c \in Clients |->
                IF rebuilt(c) THEN [config |-> conf[c], SyncState |-> NoSyncState]
                ELSE cl[c]]
      gone == {c \in Active(cl1) : conf[c] = 0}
  IN  [clients |-> [c \in Clients |-> IF c \in gone THEN NoEntry ELSE cl1[c]],
       disk |-> [c \in Clients |-> IF rebuilt(c) /\ dsk[c] = NoDir THEN EmptyDir ELSE dsk[c]],
       pending |-> gone,
       reloaded |-> Reloaded(cl, conf)]

\* How os.RemoveAll of a directory ends: "ok", "error" (nothing is removed)
\* or "partial" (an error after the files in it were removed)
RemoveResults == {"ok", "error", "partial"}

\* os.RemoveAll of a directory; a path that does not exist is no error
RemoveAll(dir, how) ==
  IF dir = NoDir \/ how = "ok" THEN [ok |-> TRUE, dir |-> NoDir]
  ELSE [ok |-> FALSE, dir |-> IF how = "partial" THEN EmptyDir ELSE dir]

\* The names ioutil.ReadDir returns for the secrets directory, sorted
SweepOrder == <<"README", "c1", "c2", "old">>

\* The errors, in the order of names, of the names in bad
ErrorsOf(names, bad, src) ==
  LET hit == SelectSeq(names, LAMBDA n : n \in bad)
  IN  [i \in 1..Len(hit) |-> [src |-> src, client |-> hit[i]]]

\* Iteration orders of a Go map over client names
RangeOrders == {o \in [1..Cardinality(Clients) -> Clients] :
                  \A i, j \in 1..Cardinality(Clients) : o[i] = o[j] => i = j}

\* pendingCleanup.cleanup: RemoveAll of the output of every pending client
\* (dirOf[c] is its DirName, rmOut[d] how RemoveAll of directory d ends);
\* a failure is returned with the errors and not counted.  The loop ranges
\* over the map p.Outputs, whose iteration order is not specified: range is
\* the order in which this call visits the clients, and the errors are
\* appended in that order.
PendingCleanup(dsk, pending, dirOf, rmOut, range) ==
  LET dirs == {dirOf[c] : c \in pending}
      bad == {c \in pending : ~RemoveAll(dsk[dirOf[c]], rmOut[dirOf[c]]).ok}
  IN  [disk |-> [d \in DOMAIN dsk |->
                   IF d \in dirs THEN RemoveAll(dsk[d], rmOut[d]).dir ELSE dsk[d]],
       deleted |-> Cardinality(pending \ bad),
       errors |-> ErrorsOf(range, bad, "removeall")]

\* A sweep that removes whatever it does not know, files too
CollectionCleanupAll(dsk, tp, known, readOk, rmOut) ==
  [disk |-> [c \in DOMAIN dsk |-> IF c \notin known THEN NoDir ELSE dsk[c]],
   top |-> [n \in TopNames |-> "none"],
   deleted |-> Cardinality({c \in DOMAIN dsk : c \notin known /\ dsk[c] # NoDir})
               + Cardinality({n \in TopNames : tp[n] # "none"}),
   errors |-> <<>>]

\* OutputDirCollection.Cleanup: of what is directly under SecretsDir, leave
\* the files, os.RemoveAll every directory whose name is not known (rmOut:
\* how each ends).  A directory whose removal fails is returned with the
\* errors and counted all the same; when the secrets directory cannot be
\* read (readOk) that error is returned and nothing is removed.
CollectionCleanup(dsk, tp, known, readOk, rmOut) ==
  LET found == IF readOk
               THEN {c \in DOMAIN dsk : c \notin known /\ dsk[c] # NoDir}
                    \cup {n \in TopNames : tp[n] = "dir"}
               ELSE {}
      bad == {n \in found : rmOut[n] # "ok"}
  IN  [disk |-> [c \in DOMAIN dsk |->
                   IF c \in found THEN RemoveAll(dsk[c], rmOut[c]).dir ELSE dsk[c]],
       top |-> [n \in TopNames |-> IF n \in found \ bad THEN "none" ELSE tp[n]],
       deleted |-> Cardinality(found),
       errors |-> IF readOk THEN ErrorsOf(SweepOrder, bad, "sweep")
                  ELSE <<[src |-> "readdir", client |-> ""]>>]

\* How the removals of the two cleanups may end.  Answers nobody asks for
\* are fixed: no RemoveAll fails on a directory that is not there or that
\* neither cleanup removes.
CleanupOutcomes(dsk, tp, pending, known) ==
  LET Failing(S) == UNION {[F -> RemoveResults \ {"ok"}] : F \in SUBSET S}
      Spread(S, h) == [n \in S |-> IF n \in DOMAIN h THEN h[n] ELSE "ok"]
      Swept(hp) == {c \in Clients \ known : dsk[c] # NoDir /\ (c \in pending => c \in DOMAIN hp)}
                   \cup {n \in TopNames : tp[n] = "dir"}
  IN  UNION {{[readOk |-> TRUE, pend |-> Spread(Clients, hp),
               sweep |-> Spread(Clients \cup TopNames, hs)] :
                hs \in {h \in Failing(Swept(hp)) :
                          \A n \in DOMAIN h \cap TopNames : h[n] = "error"}}
             \cup {[readOk |-> FALSE, pend |-> Spread(Clients, hp),
                    sweep |-> Spread(Clients \cup TopNames, <<>>)]} :
               hp \in Failing({c \in pending : dsk[c] # NoDir})}

\* Number of failed calls among the answers
CleanupFaults(o) ==
  (IF o.readOk THEN 0 ELSE 1)
  + Cardinality({c \in Clients : o.pend[c] # "ok"})
  + Cardinality({n \in Clients \cup TopNames : o.sweep[n] # "ok"})

\* What the server and the filesystem may answer during one Sync of a
\* client whose catalog is srv, whose SyncState is st and whose directory
\* holds files.  Answers nobody asks for are fixed: no fetch of a name that
\* is not listed, after a failed listing or of a secret that is still
\* valid, no write after a failed fetch.
GetOutcomes(st, files, srv, listOk) ==
  LET l == SecretList(srv, listOk)
      asked == IF l.ok
               THEN {f \in DOMAIN l.secrets : ~StillValid(l.secrets[f], st, files, f)}
               ELSE {}
  IN  {g \in [Filenames -> {"ok", "deleted", "error"}] :
         \A f \in Filenames \ asked : g[f] = "ok"}

\* The client directory exists during a Sync (NewOutput has made it), so
\* no write ends in "nodir".  For a filename that is not listed the answer
\* is that of os.Remove in the sweep, asked for an entry that has no
\* SyncState (one that has is removed before the sweep).
WriteOutcomes(st, files, srv, listOk, getOut) ==
  LET l == SecretList(srv, listOk)
      asked == IF ~l.ok THEN {}
               ELSE {f \in DOMAIN l.secrets :
                       getOut[f] = "ok" /\ ~StillValid(l.secrets[f], st, files, f)}
                    \cup {f \in Filenames \ DOMAIN l.secrets :
                            st[f] = NoState /\ files # NoDir /\ files[f] # NoFile}
  IN  {w \in [Filenames -> WriteResults \ {"nodir"}] :
         \A f \in Filenames \ asked : w[f] = "ok"}

\* Number of failed requests among the answers
RECURSIVE CountIn(_, _)
CountIn(S, bad) ==
  IF S = {} THEN 0
  ELSE LET x == CHOOSE y \in S : TRUE
       IN  (IF bad[x] THEN 1 ELSE 0) + CountIn(S \ {x}, bad)

SyncFaults(listOk, getOut, wrOut) ==
  (IF listOk THEN 0 ELSE 1)
  + CountIn(Filenames, [f \in Filenames |-> getOut[f] # "ok"])
  + CountIn(Filenames, [f \in Filenames |-> wrOut[f] # "ok"])

LoadFaults(loadOk, buildOk) ==
  (IF loadOk THEN 0 ELSE 1) + CountIn(Clients, [c \in Clients |-> ~buildOk[c]])

\* Whether buildClient succeeds, for the clients that have to be built
BuildOutcomes(cl, conf) ==
  {b \in [Clients -> BOOLEAN] :
     \A c \in Clients : (conf[c] = 0 \/ (cl[c] # NoEntry /\ cl[c].config = conf[c])) => b[c]}

\* What a previous run of keysync left in a client directory
Leftover ==
  [f \in Filenames |-> [content |-> "old", mode |-> 288, uid |-> 0, gid |-> 0]]

\* NewSyncer: an empty registry.  Both clients are configured.  Either a
\* first start (the server holds A and B for each client, the secrets
\* directory is empty) or a restart (the server holds only B, the directories
\* hold what the previous run left behind, and next to them lie the
\* directory of a client configured no more and a regular file).
InitSync ==
  /\ cfg = [c \in Clients |-> 1]
  /\ \/ /\ server = [c \in Clients |-> [n \in Names |-> 1]]
        /\ disk = [c \in Clients |-> NoDir]
        /\ top = [n \in TopNames |-> "none"]
     \/ /\ server = [c \in Clients |-> [n \in Names |-> IF n = "A" THEN 0 ELSE 1]]
        /\ disk = [c \in Clients |-> Leftover]
        /\ top = [n \in TopNames |-> IF n = "old" THEN "dir" ELSE "file"]
  /\ clients = [c \in Clients |-> NoEntry]
  /\ syncMutex = "free"
  /\ pc = [t \in Threads |-> "idle"]
  /\ loc = [t \in Threads |-> IdleLoc]
  /\ lastSuccessAt = 0
  /\ lastError = NilError
  /\ now = 1
  /\ envSteps = 0
  /\ quiet = Quiet("no")
  /\ ev = [kind |-> "init"]

\* RunOnce entered without waiting for the mutex
RunOnceLockNoWait(t) ==
  /\ pc[t] = "idle"
  /\ syncMutex' = t
  /\ pc' = [pc EXCEPT ![t] = "ro_locked"]
  /\ loc' = [loc EXCEPT ![t] = IdleLoc]
  /\ ev' = [kind |-> "lock", thread |-> t]
  /\ UNCHANGED <<writeVars, callVars, backupVars, lastError, top>>
  /\ UNCHANGED <<cfg, server, disk, clients, lastSuccessAt, now, envSteps>>
  /\ quiet' = Begun(quiet)

\* s.syncMutex.Lock() at the top of RunOnce, called from Run (poller) or
\* from syncAll (api).
RunOnceLock(t) ==
  /\ pc[t] = "idle"
  /\ syncMutex = "free"
  /\ syncMutex' = t
  /\ pc' = [pc EXCEPT ![t] = "ro_locked"]
  /\ loc' = [loc EXCEPT ![t] = IdleLoc]
  /\ ev' = [kind |-> "lock", thread |-> t]
  /\ UNCHANGED <<writeVars, callVars, backupVars, lastError, top>>
  /\ UNCHANGED <<cfg, server, disk, clients, lastSuccessAt, now, envSteps>>
  /\ quiet' = Begun(quiet)

\* RunOnce: LoadClients; a config error returns at once (unlocking).
RunOnceLoad(t) ==
  /\ pc[t] = "ro_locked"
  /\ \E loadOk \in BOOLEAN, buildOk \in BuildOutcomes(clients, cfg) :
       LET r == LoadClients(clients, cfg, disk, buildOk) IN
       /\ envSteps + LoadFaults(loadOk, buildOk) <= MaxEnv
       /\ envSteps' = envSteps + LoadFaults(loadOk, buildOk)
       /\ (loadOk \/ \A c \in Clients : buildOk[c])
       /\ IF loadOk
          THEN /\ clients' = r.clients
               /\ disk' = r.disk
               /\ loc' = [loc EXCEPT ![t] = [IdleLoc EXCEPT !.pending = r.pending,
                                                            !.actives = Active(r.clients),
                                                            !.unbuilt = {c \in Clients : ~buildOk[c]}]]
               /\ pc' = [pc EXCEPT ![t] = "ro_sync"]
               /\ syncMutex' = syncMutex
               /\ ev' = [kind |-> "load", thread |-> t, ok |-> TRUE,
                         preClients |-> clients, preDisk |-> disk,
                         buildOk |-> buildOk, reloaded |-> r.reloaded]
          ELSE /\ loc' = [loc EXCEPT ![t] = [IdleLoc EXCEPT
                             !.errors = <<[src |-> "config", client |-> ""]>>]]
               /\ pc' = [pc EXCEPT ![t] = "ro_returned"]
               /\ syncMutex' = "free"
               /\ ev' = [kind |-> "load", thread |-> t, ok |-> FALSE]
               /\ UNCHANGED <<clients, disk>>
  /\ UNCHANGED <<writeVars, callVars, backupVars, lastError, top>>
  /\ UNCHANGED <<cfg, server, lastSuccessAt, now>>
  /\ quiet' = IF envSteps' = envSteps THEN quiet ELSE Disturbed(quiet)

\* The event a Sync leaves behind: its inputs, its result, the state before.
SyncEvent(t, c, r, listOk, getOut, wrOut) ==
  [kind |-> "sync", thread |-> t, client |-> c, listOk |-> listOk,
   err |-> r.err, secrets |-> r.secrets, ops |-> r.ops, updated |-> r.updated,
   getOut |-> getOut, wrOut |-> wrOut,
   preState |-> clients[c].SyncState, preFiles |-> disk[c], quiet |-> quiet]

\* RunOnce: one iteration of "for name, entry := range s.clients".
RunOnceSync(t) ==
  /\ pc[t] = "ro_sync"
  /\ \E c \in loc[t].actives \ loc[t].done :
     \E listOk \in BOOLEAN, order \in Orders :
     \E getOut \in GetOutcomes(clients[c].SyncState, disk[c], server[c], listOk) :
     \E wrOut \in WriteOutcomes(clients[c].SyncState, disk[c], server[c], listOk, getOut) :
       LET r == Sync(clients[c].SyncState, disk[c], server[c], listOk, getOut, wrOut, order) IN
       /\ envSteps + SyncFaults(listOk, getOut, wrOut) <= MaxEnv
       /\ envSteps' = envSteps + SyncFaults(listOk, getOut, wrOut)
       /\ clients' = [clients EXCEPT ![c].SyncState = r.st]
       /\ disk' = [disk EXCEPT ![c] = r.files]
       /\ loc' = [loc EXCEPT ![t] = AfterSync(@, c, r)]
       /\ ev' = SyncEvent(t, c, r, listOk, getOut, wrOut)
  /\ UNCHANGED <<writeVars, callVars, backupVars, lastError, top>>
  /\ UNCHANGED <<cfg, server, syncMutex, pc, lastSuccessAt, now>>
  /\ quiet' = IF envSteps' = envSteps THEN quiet ELSE Disturbed(quiet)

\* The pairs of a client and a filename that the pass with locals l logged
\* a failure for and went on: a fetch or a write, an entry the sweep could
\* not remove, every secret of a client that could not be built
PassFailures(l) ==
  UNION {{<<rec.client, f>> : f \in rec.lost \cup rec.stuck} : rec \in l.catalogs}
  \cup (l.unbuilt \X Filenames)

\* The directory name of a client: DirName defaults to the client's name
DirNames == [c \in Clients |-> c]

\* RunOnce after the loop: pending cleanup, top-level sweep (the errors of
\* both are appended to those of the pass), unlock, return.
RunOnceCleanup(t) ==
  /\ pc[t] = "ro_sync"
  /\ loc[t].actives \ loc[t].done = {}
  /\ \E o \in CleanupOutcomes(disk, top, loc[t].pending, loc[t].actives), range \in RangeOrders :
       LET p == PendingCleanup(disk, loc[t].pending, DirNames, o.pend, range)
           s == CollectionCleanup(p.disk, top, loc[t].actives, o.readOk, o.sweep)
           errors == loc[t].errors \o p.errors \o s.errors
       IN  /\ envSteps + CleanupFaults(o) <= MaxEnv
           /\ envSteps' = envSteps + CleanupFaults(o)
           /\ disk' = s.disk
           /\ top' = s.top
           /\ loc' = [loc EXCEPT ![t].updated.Deleted = @ + p.deleted + s.deleted,
                                 ![t].errors = errors]
           /\ ev' = [kind |-> "runonce_end", thread |-> t, preDisk |-> disk,
                     preTop |-> top, pending |-> loc[t].pending,
                     actives |-> loc[t].actives, done |-> loc[t].done,
                     failed |-> loc[t].failed, catalogs |-> loc[t].catalogs,
                     errors |-> errors, out |-> o,
                     updated |-> [loc[t].updated EXCEPT !.Deleted = @ + p.deleted + s.deleted],
                     swept |-> p.deleted + s.deleted, quiet |-> quiet]
           /\ quiet' = Ended(IF CleanupFaults(o) = 0 THEN quiet ELSE Disturbed(quiet), errors,
                             PassFailures(loc[t]))
  /\ syncMutex' = "free"
  /\ pc' = [pc EXCEPT ![t] = "ro_returned"]
  /\ UNCHANGED <<writeVars, callVars, backupVars, lastError>>
  /\ UNCHANGED <<cfg, server, clients, lastSuccessAt, now>>

\* A Run that records a success after every pass
RunAfterPassAlways ==
  /\ pc["poller"] = "ro_returned"
  /\ lastSuccessAt' = now
  /\ pc' = [pc EXCEPT !["poller"] = IF PollInterval = 0 THEN "returned" ELSE "idle"]
  /\ loc' = [loc EXCEPT !["poller"] = IdleLoc]
  /\ ev' = [kind |-> "pass_end", thread |-> "poller", errors |-> loc["poller"].errors,
            updated |-> loc["poller"].updated, prev |-> lastSuccessAt, status |-> 0]
  /\ UNCHANGED <<writeVars, callVars, backupVars, lastError, top>>
  /\ UNCHANGED <<cfg, server, disk, clients, syncMutex, now, envSteps, quiet>>

\* Run, after RunOnce returned: record the success, then sleep or return.
RunAfterPass ==
  /\ pc["poller"] = "ro_returned"
  /\ lastSuccessAt' = IF loc["poller"].errors = <<>> THEN now ELSE lastSuccessAt
  /\ pc' = [pc EXCEPT !["poller"] = IF PollInterval = 0 THEN "returned" ELSE "idle"]
  /\ loc' = [loc EXCEPT !["poller"] = IdleLoc]
  /\ ev' = [kind |-> "pass_end", thread |-> "poller", errors |-> loc["poller"].errors,
            updated |-> loc["poller"].updated, prev |-> lastSuccessAt, status |-> 0]
  /\ UNCHANGED <<writeVars, callVars, backupVars, lastError, top>>
  /\ UNCHANGED <<cfg, server, disk, clients, syncMutex, now, envSteps, quiet>>

\* syncAll, after RunOnce returned: answer 200 or 500.
SyncAllRespond ==
  /\ pc["api"] = "ro_returned"
  /\ pc' = [pc EXCEPT !["api"] = "idle"]
  /\ loc' = [loc EXCEPT !["api"] = IdleLoc]
  /\ ev' = [kind |-> "pass_end", thread |-> "api", errors |-> loc["api"].errors,
            updated |-> loc["api"].updated, prev |-> lastSuccessAt,
            status |-> IF loc["api"].errors = <<>> THEN 200 ELSE 500]
  /\ UNCHANGED <<writeVars, callVars, backupVars, lastError, top>>
  /\ UNCHANGED <<cfg, server, disk, clients, syncMutex, lastSuccessAt, now, envSteps, quiet>>

\* syncOne: a.syncer.syncMutex.Lock() for POST /sync/{client}
SyncOneLock(c) ==
  /\ pc["api"] = "idle"
  /\ syncMutex = "free"
  /\ syncMutex' = "api"
  /\ pc' = [pc EXCEPT !["api"] = "so_locked"]
  /\ loc' = [loc EXCEPT !["api"] = [IdleLoc EXCEPT !.target = c]]
  /\ ev' = [kind |-> "lock", thread |-> "api"]
  /\ UNCHANGED <<writeVars, callVars, backupVars, lastError, top>>
  /\ UNCHANGED <<cfg, server, disk, clients, lastSuccessAt, now, envSteps, quiet>>

\* syncOne: LoadClients; a config error answers 500 (unlocking).
SyncOneLoad ==
  /\ pc["api"] = "so_locked"
  /\ \E loadOk \in BOOLEAN, buildOk \in BuildOutcomes(clients, cfg) :
       LET r == LoadClients(clients, cfg, disk, buildOk) IN
       /\ envSteps + LoadFaults(loadOk, buildOk) <= MaxEnv
       /\ envSteps' = envSteps + LoadFaults(loadOk, buildOk)
       /\ (loadOk \/ \A c \in Clients : buildOk[c])
       /\ IF loadOk
          THEN /\ clients' = r.clients
               /\ disk' = r.disk
               /\ loc' = [loc EXCEPT !["api"].pending = r.pending,
                                     !["api"].actives = Active(r.clients)]
               /\ pc' = [pc EXCEPT !["api"] = "so_sync"]
               /\ syncMutex' = syncMutex
               /\ ev' = [kind |-> "load", thread |-> "api", ok |-> TRUE,
                         preClients |-> clients, preDisk |-> disk,
                         buildOk |-> buildOk, reloaded |-> r.reloaded]
          ELSE /\ loc' = [loc EXCEPT !["api"] = IdleLoc]
               /\ pc' = [pc EXCEPT !["api"] = "idle"]
               /\ syncMutex' = "free"
               /\ ev' = [kind |-> "load", thread |-> "api", ok |-> FALSE, status |-> 500]
               /\ UNCHANGED <<clients, disk>>
  /\ UNCHANGED <<writeVars, callVars, backupVars, lastError, top>>
  /\ UNCHANGED <<cfg, server, lastSuccessAt, now>>
  /\ quiet' = IF envSteps' = envSteps THEN quiet ELSE Disturbed(quiet)

\* syncOne: sync the requested entry if it is active; 404 if it is neither
\* active nor pending cleanup.
SyncOneSync ==
  /\ pc["api"] = "so_sync"
  /\ LET c == loc["api"].target IN
     IF clients[c] # NoEntry
     THEN \E listOk \in BOOLEAN, order \in Orders :
          \E getOut \in GetOutcomes(clients[c].SyncState, disk[c], server[c], listOk) :
     \E wrOut \in WriteOutcomes(clients[c].SyncState, disk[c], server[c], listOk, getOut) :
            LET r == Sync(clients[c].SyncState, disk[c], server[c], listOk, getOut, wrOut, order) IN
            /\ envSteps + SyncFaults(listOk, getOut, wrOut) <= MaxEnv
            /\ envSteps' = envSteps + SyncFaults(listOk, getOut, wrOut)
            /\ clients' = [clients EXCEPT ![c].SyncState = r.st]
            /\ disk' = [disk EXCEPT ![c] = r.files]
            /\ loc' = [loc EXCEPT !["api"] = [@ EXCEPT
                         !.done = {c},
                         !.failed = IF r.err THEN {c} ELSE {},
                         !.updated = r.updated,
                         !.status = IF r.err THEN 500 ELSE 200]]
            /\ ev' = SyncEvent("api", c, r, listOk, getOut, wrOut)
     ELSE /\ loc' = [loc EXCEPT !["api"].status = IF c \notin loc["api"].pending THEN 404 ELSE 200]
          /\ ev' = [kind |-> "nosync", thread |-> "api"]
          /\ UNCHANGED <<clients, disk, envSteps>>
  /\ pc' = [pc EXCEPT !["api"] = "so_defer"]
  /\ UNCHANGED <<writeVars, callVars, backupVars, lastError, top>>
  /\ UNCHANGED <<cfg, server, syncMutex, lastSuccessAt, now>>
  /\ quiet' = IF envSteps' = envSteps THEN quiet ELSE Disturbed(quiet)

\* syncOne returning: the deferred pendingCleanup.cleanup, whose count and
\* errors are dropped, then Unlock.
SyncOneFinish ==
  /\ pc["api"] = "so_defer"
  /\ \E o \in CleanupOutcomes(disk, top, loc["api"].pending, Clients), range \in RangeOrders :
       /\ o.readOk /\ \A n \in Clients \cup TopNames : o.sweep[n] = "ok"
       /\ envSteps + CleanupFaults(o) <= MaxEnv
       /\ envSteps' = envSteps + CleanupFaults(o)
       /\ disk' = PendingCleanup(disk, loc["api"].pending, DirNames, o.pend, range).disk
       /\ ev' = [kind |-> "syncone_end", thread |-> "api", preDisk |-> disk,
                 pending |-> loc["api"].pending, out |-> o,
                 status |-> loc["api"].status, updated |-> loc["api"].updated]
  /\ syncMutex' = "free"
  /\ pc' = [pc EXCEPT !["api"] = "idle"]
  /\ loc' = [loc EXCEPT !["api"] = IdleLoc]
  /\ UNCHANGED <<writeVars, callVars, backupVars, lastError, top>>
  /\ UNCHANGED <<cfg, server, clients, lastSuccessAt, now>>
  /\ quiet' = IF envSteps' = envSteps THEN quiet ELSE Disturbed(quiet)

\* Syncer.timeSinceLastSuccess: the time since the recorded success, and
\* whether one has been recorded
TimeSinceLastSuccess(last, t) ==
  IF last = 0 THEN [since |-> 0, ok |-> FALSE] ELSE [since |-> t - last, ok |-> TRUE]

\* APIServer.status: 503 before the first success, 503 with the most recent
\* error when the success is older than 10 poll intervals, else 200.
StatusOf(last, t, err) ==
  LET r == TimeSinceLastSuccess(last, t) IN
  IF ~r.ok THEN [code |-> 503, body |-> "initial", err |-> NilError]
  ELSE IF r.since > PollInterval * FailureThresholdMultiplier
  THEN [code |-> 503, body |-> "stale", err |-> err]
  ELSE [code |-> 200, body |-> "ok", err |-> NilError]

\* GET /status.  It takes no sync mutex; what it reads changes only between
\* passes, so an answer given during a pass is one given just before it.
Status ==
  /\ \A t \in Threads : pc[t] \in {"idle", "returned", "ro_returned"}
  /\ ev' = [kind |-> "status", answer |-> StatusOf(lastSuccessAt, now, lastError)]
  /\ ev' # ev
  /\ UNCHANGED <<writeVars, callVars, backupVars, lastError, top>>
  /\ UNCHANGED <<cfg, server, disk, clients, syncMutex, pc, loc, lastSuccessAt, now, envSteps, quiet>>

\* ------------------------------------------------------------------------
\* The environment: the server's catalog, the configuration, other
\* processes touching the secrets directory, the clock.  The program reads
\* them only inside its critical sections, so a change made while a thread
\* is inside one is a change made just before or just after it.
\* ------------------------------------------------------------------------

ServerChange(c, n, v) ==
  /\ envSteps < MaxEnv
  /\ \A t \in Threads : pc[t] \in {"idle", "returned"}
  /\ server[c][n] # v
  /\ server' = [server EXCEPT ![c][n] = v]
  /\ envSteps' = envSteps + 1
  /\ ev' = [kind |-> "env"]
  /\ UNCHANGED <<writeVars, callVars, backupVars, lastError, top>>
  /\ UNCHANGED <<cfg, disk, clients, syncMutex, pc, loc, lastSuccessAt, now>>
  /\ quiet' = IF envSteps' = envSteps THEN quiet ELSE Disturbed(quiet)

ConfigChange(c, v) ==
  /\ envSteps < MaxEnv
  /\ \A t \in Threads : pc[t] \in {"idle", "returned"}
  /\ cfg[c] # v
  /\ cfg' = [cfg EXCEPT ![c] = v]
  /\ envSteps' = envSteps + 1
  /\ ev' = [kind |-> "env"]
  /\ UNCHANGED <<writeVars, callVars, backupVars, lastError, top>>
  /\ UNCHANGED <<server, disk, clients, syncMutex, pc, loc, lastSuccessAt, now>>
  /\ quiet' = IF envSteps' = envSteps THEN quiet ELSE Disturbed(quiet)

\* Another process changes a file in a client directory (chmod 0444,
\* overwrite, unlink) or leaves a stray file there.
Tamper(c, f, how) ==
  /\ envSteps < MaxEnv
  /\ \A t \in Threads : pc[t] \in {"idle", "returned"}
  /\ disk[c] # NoDir
  /\ \/ /\ how = "chmod" /\ disk[c][f] # NoFile /\ disk[c][f].mode # ReadBits
        /\ disk' = [disk EXCEPT ![c][f].mode = ReadBits]
     \/ /\ how = "chown" /\ disk[c][f] # NoFile
        /\ disk' = [disk EXCEPT ![c][f].uid = @ + 1]
     \/ /\ how = "corrupt" /\ disk[c][f] # NoFile
        /\ disk' = [disk EXCEPT ![c][f].content = "junk"]
     \/ /\ how = "delete" /\ disk[c][f] # NoFile
        /\ disk' = [disk EXCEPT ![c][f] = NoFile]
     \/ /\ how = "create" /\ disk[c][f] = NoFile
        /\ disk' = [disk EXCEPT ![c][f] = [content |-> "junk", mode |-> ReadBits, uid |-> 0, gid |-> 0]]
  /\ envSteps' = envSteps + 1
  /\ ev' = [kind |-> "env"]
  /\ UNCHANGED <<writeVars, callVars, backupVars, lastError, top>>
  /\ UNCHANGED <<cfg, server, clients, syncMutex, pc, loc, lastSuccessAt, now>>
  /\ quiet' = IF envSteps' = envSteps THEN quiet ELSE Disturbed(quiet)

\* Another process leaves the directory "old" or the regular file "README"
\* directly under SecretsDir
TopCreate(n) ==
  /\ envSteps < MaxEnv
  /\ \A t \in Threads : pc[t] \in {"idle", "returned"}
  /\ top[n] = "none"
  /\ top' = [top EXCEPT ![n] = IF n = "old" THEN "dir" ELSE "file"]
  /\ envSteps' = envSteps + 1
  /\ ev' = [kind |-> "env"]
  /\ UNCHANGED <<writeVars, callVars, backupVars, lastError>>
  /\ UNCHANGED <<cfg, server, disk, clients, syncMutex, pc, loc, lastSuccessAt, now>>
  /\ quiet' = IF envSteps' = envSteps THEN quiet ELSE Disturbed(quiet)

\* Time passes: a moment while a pass ends, or more than the failure
\* threshold of /status between passes.  The clock is read in two places,
\* after a pass of the polling loop and in the status handler; time that
\* passes elsewhere shows when it is read there.
Tick(d) ==
  /\ envSteps < MaxEnv
  /\ IF d = 1 THEN pc["poller"] = "ro_returned"
     ELSE \A t \in Threads : pc[t] \in {"idle", "returned"}
  /\ now' = now + d
  /\ envSteps' = envSteps + 1
  /\ ev' = [kind |-> "env"]
  /\ UNCHANGED <<writeVars, callVars, backupVars, lastError, top>>
  /\ UNCHANGED <<cfg, server, disk, clients, syncMutex, pc, loc, lastSuccessAt>>
  /\ quiet' = IF envSteps' = envSteps THEN quiet ELSE Disturbed(quiet)

\* ------------------------------------------------------------------------
\* WriteFileAtomically (output/write.go), one step per system call, and a
\* process that opens and reads the final path while it runs.
\* ------------------------------------------------------------------------

\* How many calls of WriteFileAtomically are followed
MaxWrites == 2
Inodes == 1..MaxWrites

\* Contents are written in pieces: a reader of the same file may see a prefix
WContents == {<<"h", "i">>, <<"y", "o">>}
WModes == {288, 256}
WOwners == {0, 1001}

\* The user keysync runs as: the owner of a file it creates
ProcessUID == 0

\* wr.before is the file at the final path when the call was made, wr.hist
\* the files the calls made so far were asked to write.
WrIdle == [pc |-> "idle", n |-> 0, f |-> 0, content |-> <<>>,
           fileInfo |-> [Mode |-> 0, UID |-> 0, GID |-> 0], chownFiles |-> FALSE,
           enforceFilesystem |-> FALSE, before |-> NoFile,
           ret |-> "none", fileinfo |-> NoState, hist |-> {}]

RdIdle == [pc |-> "idle", fd |-> 0, seen |-> NoFile]

InitWrite ==
  /\ dirent = [p \in {"final", "tmp"} |-> 0]
  /\ inode = [i \in Inodes |-> NoFile]
  /\ wr = WrIdle
  /\ rd = RdIdle

\* The file a path names
FileAt(p) == IF dirent[p] = 0 THEN NoFile ELSE inode[dirent[p]]

\* The file a successful call leaves at the final path
Want(w) ==
  [content |-> w.content, mode |-> w.fileInfo.Mode,
   uid |-> IF w.chownFiles THEN w.fileInfo.UID ELSE ProcessUID,
   gid |-> IF w.chownFiles THEN w.fileInfo.GID ELSE ProcessUID]

\* A call of WriteFileAtomically(dir, filename, chownFiles, fileInfo,
\* enforceFilesystem, content)
WfCall(content, mode, owner, chown, enforce) ==
  /\ wr.pc = "idle"
  /\ wr.n < MaxWrites
  /\ LET w == [WrIdle EXCEPT !.pc = "mkdir", !.n = wr.n + 1, !.content = content,
                             !.fileInfo = [Mode |-> mode, UID |-> owner, GID |-> owner],
                             !.chownFiles = chown, !.enforceFilesystem = enforce,
                             !.before = FileAt("final")]
     IN  wr' = [w EXCEPT !.hist = wr.hist \cup {Want(w)}]
  /\ UNCHANGED <<dirent, inode, rd>>
  /\ UNCHANGED <<syncVars, callVars, backupVars>>

\* os.MkdirAll and rand.Read: a failure returns before anything is created
WfMkdirAll(ok) ==
  /\ wr.pc = "mkdir"
  /\ wr' = IF ok THEN [wr EXCEPT !.pc = "open"]
           ELSE [wr EXCEPT !.pc = "idle", !.ret = "error"]
  /\ UNCHANGED <<dirent, inode, rd>>
  /\ UNCHANGED <<syncVars, callVars, backupVars>>

\* WriteFileAtomically opening the final path itself
WfOpenInPlace(ok) ==
  /\ wr.pc = "open"
  /\ IF ok
     THEN /\ inode' = [inode EXCEPT ![wr.n] =
                         [content |-> <<>>, mode |-> 0, uid |-> ProcessUID, gid |-> ProcessUID]]
          /\ dirent' = [dirent EXCEPT !["final"] = wr.n]
          /\ wr' = [wr EXCEPT !.pc = "chown", !.f = wr.n]
     ELSE /\ wr' = [wr EXCEPT !.pc = "defer", !.ret = "error"]
          /\ UNCHANGED <<dirent, inode>>
  /\ UNCHANGED rd
  /\ UNCHANGED <<syncVars, callVars, backupVars>>

\* os.OpenFile(fullPath+randSuffix, O_RDWR|O_CREATE|O_EXCL, 0000); the
\* removal of that path is deferred whether or not it failed.
WfOpenFile(ok) ==
  /\ wr.pc = "open"
  /\ IF ok
     THEN /\ inode' = [inode EXCEPT ![wr.n] =
                         [content |-> <<>>, mode |-> 0, uid |-> ProcessUID, gid |-> ProcessUID]]
          /\ dirent' = [dirent EXCEPT !["tmp"] = wr.n]
          /\ wr' = [wr EXCEPT !.pc = "chown", !.f = wr.n]
     ELSE /\ wr' = [wr EXCEPT !.pc = "defer", !.ret = "error"]
          /\ UNCHANGED <<dirent, inode>>
  /\ UNCHANGED rd
  /\ UNCHANGED <<syncVars, callVars, backupVars>>

\* if chownFiles { f.Chown(fileInfo.UID, fileInfo.GID) }: a failure returns
WfChown(ok) ==
  /\ wr.pc = "chown"
  /\ IF ~wr.chownFiles
     THEN /\ ok
          /\ wr' = [wr EXCEPT !.pc = "chmod"]
          /\ UNCHANGED inode
     ELSE IF ok
     THEN /\ inode' = [inode EXCEPT ![wr.f].uid = wr.fileInfo.UID,
                                    ![wr.f].gid = wr.fileInfo.GID]
          /\ wr' = [wr EXCEPT !.pc = "chmod"]
     ELSE /\ wr' = [wr EXCEPT !.pc = "defer", !.ret = "error"]
          /\ UNCHANGED inode
  /\ UNCHANGED <<dirent, rd>>
  /\ UNCHANGED <<syncVars, callVars, backupVars>>

\* f.Chmod(fileInfo.Mode)
WfChmod(ok) ==
  /\ wr.pc = "chmod"
  /\ IF ok
     THEN /\ inode' = [inode EXCEPT ![wr.f].mode = wr.fileInfo.Mode]
          /\ wr' = [wr EXCEPT !.pc = "fscheck"]
     ELSE /\ wr' = [wr EXCEPT !.pc = "defer", !.ret = "error"]
          /\ UNCHANGED inode
  /\ UNCHANGED <<dirent, rd>>
  /\ UNCHANGED <<syncVars, callVars, backupVars>>

\* if enforceFilesystem != 0 { isFilesystem(f, enforceFilesystem) }
WfFsCheck(good) ==
  /\ wr.pc = "fscheck"
  /\ (~wr.enforceFilesystem => good)
  /\ wr' = IF good THEN [wr EXCEPT !.pc = "write"]
           ELSE [wr EXCEPT !.pc = "defer", !.ret = "error"]
  /\ UNCHANGED <<dirent, inode, rd>>
  /\ UNCHANGED <<syncVars, callVars, backupVars>>

\* f.Write(content): the bytes reach the file one piece after the other; an
\* error leaves the pieces written so far.
WfWrite(ok) ==
  /\ wr.pc = "write"
  /\ LET done == Len(inode[wr.f].content) IN
     IF ~ok
     THEN /\ wr' = [wr EXCEPT !.pc = "defer", !.ret = "error"]
          /\ UNCHANGED inode
     ELSE /\ inode' = [inode EXCEPT ![wr.f].content = Append(@, wr.content[done + 1])]
          /\ wr' = [wr EXCEPT !.pc = IF done + 1 = Len(wr.content) THEN "stat" ELSE "write"]
  /\ UNCHANGED <<dirent, rd>>
  /\ UNCHANGED <<syncVars, callVars, backupVars>>

\* GetFileInfo(f), then f.Sync() whose error is ignored
WfStat(ok) ==
  /\ wr.pc = "stat"
  /\ wr' = IF ok THEN [wr EXCEPT !.pc = "rename", !.fileinfo = GetFileInfo(inode[wr.f])]
           ELSE [wr EXCEPT !.pc = "defer", !.ret = "error"]
  /\ UNCHANGED <<dirent, inode, rd>>
  /\ UNCHANGED <<syncVars, callVars, backupVars>>

\* os.Rename(fullPath+randSuffix, fullPath)
WfRename(ok) ==
  /\ wr.pc = "rename"
  /\ (ok => dirent["tmp"] # 0)
  /\ IF ok
     THEN /\ dirent' = [dirent EXCEPT !["final"] = dirent["tmp"], !["tmp"] = 0]
          /\ wr' = [wr EXCEPT !.pc = "defer", !.ret = "ok"]
     ELSE /\ wr' = [wr EXCEPT !.pc = "defer", !.ret = "error", !.fileinfo = NoState]
          /\ UNCHANGED dirent
  /\ UNCHANGED <<inode, rd>>
  /\ UNCHANGED <<syncVars, callVars, backupVars>>

\* A return without the deferred os.Remove
WfDeferKeep ==
  /\ wr.pc = "defer"
  /\ wr' = [wr EXCEPT !.pc = "idle", !.f = 0]
  /\ UNCHANGED <<dirent, inode, rd>>
  /\ UNCHANGED <<syncVars, callVars, backupVars>>

\* The deferred os.Remove(fullPath+randSuffix), then the return
WfDefer ==
  /\ wr.pc = "defer"
  /\ dirent' = [dirent EXCEPT !["tmp"] = 0]
  /\ wr' = [wr EXCEPT !.pc = "idle", !.f = 0]
  /\ UNCHANGED <<inode, rd>>
  /\ UNCHANGED <<syncVars, callVars, backupVars>>

\* Another process opens the final path, ...
RdOpen ==
  /\ rd.pc = "idle"
  /\ dirent["final"] # 0
  /\ rd' = [pc |-> "open", fd |-> dirent["final"], seen |-> NoFile]
  /\ UNCHANGED <<dirent, inode, wr>>
  /\ UNCHANGED <<syncVars, callVars, backupVars>>

\* ... reads the file it opened (contents, mode, owner), ...
RdRead ==
  /\ rd.pc = "open"
  /\ rd' = [rd EXCEPT !.pc = "read", !.seen = inode[rd.fd]]
  /\ UNCHANGED <<dirent, inode, wr>>
  /\ UNCHANGED <<syncVars, callVars, backupVars>>

\* ... and closes it.
RdClose ==
  /\ rd.pc = "read"
  /\ rd' = RdIdle
  /\ UNCHANGED <<dirent, inode, wr>>
  /\ UNCHANGED <<syncVars, callVars, backupVars>>

\* ------------------------------------------------------------------------
\* One syncerEntry, its OutputDir and its clients, called directly: each
\* behaviour is one call on fresh objects, or a sequence of calls of Sync
\* on one entry.
\* ------------------------------------------------------------------------

\* Length of a Mode string
MaxModeLen == 4

\* Digits of a Mode string; 9 is not an octal digit
ModeDigits == {0, 4, 6, 7, 9}

\* Number of secrets in one listing
MaxList == 2

\* Names and filename overrides a server can send
PathNames == {"A", "..", ".", "", "a/b", "../x"}

RECURSIVE Split(_, _, _, _)
\* The elements of a path between separators
Split(chars, i, cur, acc) ==
  IF i > Len(chars) THEN Append(acc, cur)
  ELSE IF chars[i] = Separator THEN Split(chars, i + 1, <<>>, Append(acc, cur))
  ELSE Split(chars, i + 1, Append(cur, chars[i]), acc)

RECURSIVE Clean(_, _, _)
\* filepath.Clean of a rooted path: empty and "." elements vanish, ".."
\* removes the element before it.
Clean(elems, i, acc) ==
  IF i > Len(elems) THEN acc
  ELSE IF elems[i] = <<>> \/ elems[i] = <<".">> THEN Clean(elems, i + 1, acc)
  ELSE IF elems[i] = <<".", ".">>
  THEN Clean(elems, i + 1, IF acc = <<>> THEN acc ELSE SubSeq(acc, 1, Len(acc) - 1))
  ELSE Clean(elems, i + 1, Append(acc, elems[i]))

\* filepath.Join(dir, name); a path is the sequence of its elements
Join(dir, name) == Clean(dir \o Split(Chars(name), 1, <<>>, <<>>), 1, <<>>)

\* Config.SecretsDir
SecretsDir == <<Chars("secrets")>>

\* OutputDir.WriteDirectory of a client
WriteDirectory(c) == Join(SecretsDir, c)

\* fullPath+randSuffix: "#" stands for the 64 hexadecimal digits
TempPath(fullPath) ==
  IF fullPath = <<>> THEN <<<<"#">>>>
  ELSE [fullPath EXCEPT ![Len(fullPath)] = @ \o <<"#">>]

\* The directories above dir, and dir
IsDirectory(path, dir) == Len(path) <= Len(dir) /\ SubSeq(dir, 1, Len(path)) = path

\* OutputDir.Write as paths: the temporary file is created next to the
\* final path and renamed onto it; renaming onto a directory fails.
WritePaths(dir, secret) ==
  LET fn == Filename(secret)
      mv == ModeValue(secret)
      path == Join(dir, fn.name)
  IN  IF ~fn.ok \/ ~mv.ok
      THEN [ok |-> FALSE, created |-> {}, renamed |-> {}]
      ELSE IF IsDirectory(path, dir)
      THEN [ok |-> FALSE, created |-> {TempPath(path)}, renamed |-> {}]
      ELSE [ok |-> TRUE, created |-> {TempPath(path)}, renamed |-> {path}]

\* Names of the secrets in the catalog of the entry's server
CatalogNames == {"A", "B", "a/b"}

\* The catalogs the entry's server can hold
Catalogs ==
  {srv \in [CatalogNames -> 0..3] : srv["A"] <= 2 /\ srv["a/b"] <= 2}

\* Calls of Sync on the entry in one behaviour
MaxSyncs == 2

\* The entry as buildClient makes it: no SyncState, and an OutputDir whose
\* directory NewOutput has created with os.MkdirAll.
InitCall ==
  /\ entry = [st |-> [f \in Filenames |-> NoState], files |-> EmptyDir, syncs |-> 0]
  /\ out = [files |-> EmptyDir, secret |-> NoState, state |-> NoState, changed |-> "no"]
  /\ call = [op |-> "none"]

\* OutputDir.Write of a secret with the given Name and FilenameOverride
WriteCall(name, override) ==
  LET secret == [Name |-> name, Checksum |-> "p1", Content |-> "path",
                 FilenameOverride |-> override, Mode |-> <<>>,
                 Owner |-> "", Group |-> ""]
  IN  /\ call.op = "none"
      /\ call' = [op |-> "write", dir |-> WriteDirectory("c1"), secret |-> secret,
                  res |-> WritePaths(WriteDirectory("c1"), secret)]
      /\ UNCHANGED <<syncVars, writeVars, backupVars, entry, out>>

\* OutputDir.Write of a secret with the given Mode into an empty directory
ModeCall(mode) ==
  LET secret == [Name |-> "A", Checksum |-> "m1", Content |-> "mode",
                 FilenameOverride |-> NoOverride, Mode |-> mode,
                 Owner |-> "", Group |-> ""]
  IN  /\ call.op = "none"
      /\ call' = [op |-> "mode", secret |-> secret, res |-> Write(EmptyDir, secret, "ok")]
      /\ UNCHANGED <<syncVars, writeVars, backupVars, entry, out>>

\* syncerEntry.Sync against a server holding the catalog srv that answers
\* every request, on a filesystem that takes every write.  During the
\* first Sync of the entry another process may change the files in meddle
\* as soon as they are written.
EntrySync(srv, order, meddle) ==
  LET getOut == [f \in Filenames |-> "ok"]
      wrOut == [f \in Filenames |-> "ok"]
      r == SyncMeddled(entry.st, entry.files, srv, TRUE, getOut, wrOut, order, meddle)
  IN  /\ call.op \in {"none", "sync"}
      /\ entry.syncs < MaxSyncs
      /\ meddle # {} => entry.syncs = 0
      /\ entry' = [st |-> r.st, files |-> r.files, syncs |-> entry.syncs + 1]
      /\ call' = [op |-> "sync", srv |-> srv, err |-> r.err, ops |-> r.ops,
                  updated |-> r.updated, preState |-> entry.st, preFiles |-> entry.files,
                  meddle |-> meddle,
                  before |-> IF call.op = "sync" THEN call.meddle ELSE {}]
      /\ UNCHANGED <<syncVars, writeVars, backupVars, out>>

\* The secrets written to the OutputDir
WriteSecrets ==
  {SecretOf("A", 1), SecretOf("A", 2), SecretOf("B", 1), SecretOf("B", 2),
   SecretOf("a/b", 2)}

\* The secrets a state is validated against: those of the server, and the
\* written one with another checksum, owner, group or mode
ValidateSecrets(written) ==
  WriteSecrets \cup {SecretOf("B", 3)}
    \cup {[written EXCEPT !.Checksum = "other"], [written EXCEPT !.Owner = "other"],
          [written EXCEPT !.Group = "other"], [written EXCEPT !.Mode = <<0, 4, 0, 4>>]}

\* OutputDir.Write of a secret into an empty directory
OutWrite(secret) ==
  LET w == Write(EmptyDir, secret, "ok")
  IN  /\ call.op = "none"
      /\ w.ok
      /\ out' = [files |-> w.files, secret |-> secret, state |-> w.state, changed |-> "no"]
      /\ call' = [op |-> "outwrite"]
      /\ UNCHANGED <<syncVars, writeVars, backupVars, entry>>

\* OutputDir.Write of a secret after the client directory was removed
\* (dir = NoDir) or into the directory an earlier run left, with every way
\* WriteFileAtomically can end; its os.MkdirAll fails only where it has a
\* directory to make.
DirWrite(secret, dir, wrOk) ==
  /\ call.op = "none"
  /\ wrOk = "nodir" => dir = NoDir
  /\ call' = [op |-> "dirwrite", secret |-> secret, dir |-> dir, wrOk |-> wrOk,
              res |-> Write(dir, secret, wrOk)]
  /\ UNCHANGED <<syncVars, writeVars, backupVars, entry, out>>

\* Another process changes the written file: chmod, chown, chgrp, a change
\* of its content, OutputDir.Remove
OutChange(how) ==
  LET f == Filename(out.secret).name
      file == out.files[f]
  IN  /\ call.op = "outwrite"
      /\ \/ /\ how = "chmod"
            /\ out' = [out EXCEPT !.changed = how,
                          !.files[f].mode = IF file.mode = ReadBits THEN 256 ELSE ReadBits]
         \/ /\ how = "chown"
            /\ out' = [out EXCEPT !.changed = how, !.files[f].uid = file.uid + 1]
         \/ /\ how = "chgrp"
            /\ out' = [out EXCEPT !.changed = how, !.files[f].gid = file.gid + 1]
         \/ /\ how = "content"
            /\ out' = [out EXCEPT !.changed = how, !.files[f].content = "junk"]
         \/ /\ how = "remove"
            /\ out' = [out EXCEPT !.changed = how, !.files = Remove(out.files, f).files]
      /\ call' = [op |-> "change"]
      /\ UNCHANGED <<syncVars, writeVars, backupVars, entry>>

\* OutputDir.Validate of a secret against the state the Write returned
ValidateCall(secret) ==
  /\ call.op \in {"outwrite", "change"}
  /\ call' = [op |-> "validate", secret |-> secret, state |-> out.state, files |-> out.files,
              res |-> Validate(secret, out.state, out.files)]
  /\ UNCHANGED <<syncVars, writeVars, backupVars, entry, out>>

\* Largest max_retries of a client's configuration
MaxRetries == 3

\* What the server answers to one attempt: an HTTP status, or no response
\* at all (httpClient.Get returns an error)
Answers ==
  [err : {FALSE}, status : {200, 404, 500, 503}] \cup {[err |-> TRUE, status |-> 0]}

\* shouldRetry
ShouldRetry(resp) == resp.status >= 500

\* The named results of getWithRetry before any attempt: resp and err are
\* both nil (status 0: no response)
NoResponse == [err |-> FALSE, status |-> 0]

RECURSIVE GetWithRetry(_, _, _)
\* KeywhizHTTPClient.getWithRetry: for i := 0; i < maxRetries; i++, where
\* answers[i + 1] is what attempt i gets; returns the last response, and
\* what resp and err were when the loop ends.
GetWithRetry(answers, maxRetries, i) ==
  IF i >= maxRetries
  THEN [attempts |-> i, resp |-> IF i = 0 THEN NoResponse ELSE answers[i]]
  ELSE IF answers[i + 1].err \/ ~ShouldRetry(answers[i + 1])
  THEN [attempts |-> i + 1, resp |-> answers[i + 1]]
  ELSE GetWithRetry(answers, maxRetries, i + 1)

\* One request of a client configured with maxRetries against a server
\* that answers the attempts with answers
RetryCall(maxRetries, answers) ==
  /\ call.op = "none"
  /\ call' = [op |-> "get", maxRetries |-> maxRetries, answers |-> answers,
              res |-> GetWithRetry(answers, maxRetries, 0)]
  /\ UNCHANGED <<syncVars, writeVars, backupVars, entry, out>>

\* The secrets of a listing or a bundle
ListSecrets ==
  {SecretOf("A", 1), SecretOf("B", 1), SecretOf("B", 2), SecretOf("B", 3),
   SecretOf("a/b", 2)}

\* SecretList of both clients for the same parsed list of secrets, and the
\* bundle client's Secret for the Name of every secret it lists, which is
\* how Sync fetches
ListCall(parsed) ==
  /\ call.op = "none"
  /\ call' = [op |-> "list", parsed |-> parsed,
              http |-> IndexByFilename(parsed, 1, <<>>),
              bundle |-> BundleSecretList(parsed),
              gets |-> LET b == BundleSecretList(parsed)
                       IN  [f \in DOMAIN b.secrets |-> BundleSecret(b.secrets, b.secrets[f].Name)]]
  /\ UNCHANGED <<syncVars, writeVars, backupVars, entry, out>>

\* ------------------------------------------------------------------------
\* Backup and restore (backup/tar.go): createTar and extractTar on a tree of
\* files.  A path is the sequence of its elements, an entry's name is the
\* sequence of its characters.
\* ------------------------------------------------------------------------

\* Entries of a tarball
MaxEntries == 2

\* strings.HasPrefix(name, separator)
HasPrefix(name, separator) == Len(name) > 0 /\ name[1] = separator

RECURSIVE Render(_, _)
\* The elements of a path from the i-th on, each after a separator
Render(elems, i) ==
  IF i > Len(elems) THEN <<>>
  ELSE <<Separator>> \o elems[i] \o Render(elems, i + 1)

\* filepath.Clean(name) of a name that starts with the separator
CleanName(name) ==
  LET elems == Clean(Split(name, 1, <<>>, <<>>), 1, <<>>)
  IN  IF elems = <<>> THEN <<Separator>> ELSE Render(elems, 1)

\* extractTar's check of header.Name
CanonicalAlways(headerName) == TRUE

\* extractTar's check of header.Name: the separator is put in front unless
\* the name starts with it, and the result has to be its own Clean.
Canonical(headerName) ==
  LET name == IF ~HasPrefix(headerName, Separator)
              THEN <<Separator>> \o headerName ELSE headerName
  IN  name = CleanName(name)

\* filepath.Join(dirpath, header.Name)
JoinName(dirpath, headerName) ==
  Clean(dirpath \o Split(headerName, 1, <<>>, <<>>), 1, <<>>)

\* filepath.Rel(dir, path) of a path below dir
RelBase(dir, path) == path[Len(path)]

\* filepath.Rel(dir, path) of a path below dir
Rel(dir, path) == Tail(Render(SubSeq(path, Len(dir) + 1, Len(path)), 1))

\* The set-uid bit of a header's Mode (c_ISUID, 04000)
C_ISUID == 2048

\* The set-uid bit of an os.FileMode (os.ModeSetuid, 1 << 23)
ModeSetuid == 8388608

\* Modes of the files of a tree: 0440, 0404 and 0755 with set-uid
TarModes == {288, 260, ModeSetuid + 493}

\* The paths of a tree in the order filepath.Walk visits them
WalkPaths ==
  << <<Chars("secrets"), <<"a">>, <<"b">>>>,
     <<Chars("secrets"), <<"a">>, <<"c">>>>,
     <<Chars("secrets"), <<"l">>>>,
     <<Chars("secrets"), <<"x">>>> >>

\* The file system around the secrets directory: kind is what is at
\* SecretsDir ("none", "file" or "dir"), files are the non-directories by
\* path, dirs the directories below SecretsDir.
NoTree == [kind |-> "none", files |-> {}, dirs |-> {}]
EmptyTree == [kind |-> "dir", files |-> {}, dirs |-> {}]

\* The proper prefixes of path that are longer than dir
DirsAbove(dir, path) ==
  {SubSeq(path, 1, n) : n \in (Len(dir) + 1)..(Len(path) - 1)}

\* Source trees of a backup: any of the walk paths, the third a symbolic
\* link or absent, with a mode and a content each
SourceTrees ==
  {[kind |-> "dir",
    files |-> {[path |-> WalkPaths[i],
                type |-> IF i = 3 THEN "symlink" ELSE "reg",
                content |-> IF i = 1 THEN "c1" ELSE "c2",
                mode |-> m[i]] : i \in present},
    dirs |-> UNION {DirsAbove(SecretsDir, WalkPaths[i]) : i \in present} \cup extra] :
     present \in SUBSET (1..Len(WalkPaths)),
     m \in [1..Len(WalkPaths) -> TarModes],
     extra \in {{}, {<<Chars("secrets"), <<"n">>>>}}}

\* tar.FileInfoHeader: Mode is the permission bits of the file's mode, and
\* c_ISUID if the file is set-uid
HeaderMode(mode) ==
  Perm(mode) + IF (mode \div ModeSetuid) % 2 = 1 THEN C_ISUID ELSE 0

\* File.Chmod(os.FileMode(header.Mode)): the permission bits, and set-uid
\* if os.ModeSetuid is set
SyscallMode(mode) ==
  Perm(mode) + IF (mode \div ModeSetuid) % 2 = 1 THEN ModeSetuid ELSE 0

RECURSIVE CreateLoop(_, _, _)
\* createTar's walk: directories and files that are not regular are
\* skipped; a regular file becomes an entry named by its path below dir.
CreateLoop(tree, i, tarball) ==
  IF i > Len(WalkPaths) THEN tarball
  ELSE LET here == {f \in tree.files : f.path = WalkPaths[i]}
       IN  IF here = {} THEN CreateLoop(tree, i + 1, tarball)
           ELSE LET f == CHOOSE f \in here : TRUE
                IN  IF f.type # "reg" THEN CreateLoop(tree, i + 1, tarball)
                    ELSE CreateLoop(tree, i + 1,
                           Append(tarball,
                                  [name |-> Rel(SecretsDir, f.path), type |-> "reg",
                                   content |-> f.content, mode |-> HeaderMode(f.mode)]))

\* createTar(dir)
CreateTar(tree) == CreateLoop(tree, 1, <<>>)

\* checkIfEmpty(dir) that looks at the top of dir only
CheckIfEmptyTop(tree) ==
  tree.kind = "dir" /\ \A f \in tree.files : Len(f.path) # Len(SecretsDir) + 1

\* checkIfEmpty(dir): an error if the walk meets anything that is not a
\* directory, dir itself included
CheckIfEmpty(tree) == tree.kind = "dir" /\ tree.files = {}

\* WriteFileAtomically(path, ...) as extractTar uses it: the directories
\* above path are made, the content is written to a temporary file with
\* the permission bits of the mode and renamed to path.  It fails when a
\* file is in the way of a directory or a directory in the way of the file.
WriteTarFile(tree, path, content, mode) ==
  LET above == {SubSeq(path, 1, n) : n \in 1..(Len(path) - 1)}
      isDir == \/ IsDirectory(path, SecretsDir)
               \/ path \in tree.dirs
      blocked == \E f \in tree.files : f.path \in above
  IN  IF isDir \/ blocked
      THEN [ok |-> FALSE, tree |-> tree]
      ELSE [ok |-> TRUE,
            tree |-> [tree EXCEPT
                        !.files = {f \in @ : f.path # path} \cup
                                  {[path |-> path, type |-> "reg",
                                    content |-> content, mode |-> SyscallMode(mode)]},
                        !.dirs = @ \cup {d \in above : ~IsDirectory(d, SecretsDir)
                                                       /\ IsDirectory(SecretsDir, d)}]]

RECURSIVE ExtractLoop(_, _, _, _)
\* extractTar's loop over the headers; written are the positions of the
\* entries that were written
ExtractLoop(tarball, i, tree, written) ==
  IF i > Len(tarball) THEN [ok |-> TRUE, err |-> "", tree |-> tree, written |-> written]
  ELSE LET header == tarball[i]
       IN  CASE header.type = "dir" -> ExtractLoop(tarball, i + 1, tree, written)
             [] header.type = "reg" ->
                  IF ~Canonical(header.name)
                  THEN [ok |-> FALSE, err |-> "NonCanonicalPathError",
                        tree |-> tree, written |-> written]
                  ELSE LET w == WriteTarFile(tree, JoinName(SecretsDir, header.name),
                                             header.content, header.mode)
                       IN  IF ~w.ok
                           THEN [ok |-> FALSE, err |-> "write", tree |-> tree,
                                 written |-> written]
                           ELSE ExtractLoop(tarball, i + 1, w.tree, written \cup {i})
             [] OTHER -> [ok |-> FALSE, err |-> "unhandled file", tree |-> tree,
                          written |-> written]

\* extractTar(tarball, chown, dirpath, filesystem): a missing directory is
\* made, a destination with a file in it is refused, then the entries are
\* written one by one.
ExtractTar(tarball, tree) ==
  LET made == IF tree.kind = "none" THEN [tree EXCEPT !.kind = "dir"] ELSE tree
  IN  IF ~CheckIfEmpty(made)
      THEN [ok |-> FALSE, err |-> "not empty", tree |-> made, written |-> {}]
      ELSE ExtractLoop(tarball, 1, made, {})

\* Names of the entries of a tarball
TarNames ==
  {Chars("x"), Chars("a/b"), Chars("../x"), Chars("a/../../b"), Chars("/x"),
   Chars("a//b")}

\* Entries of a tarball: regular files, a directory and a symbolic link
TarEntries ==
  [name : TarNames, type : {"reg"}, content : {"c1"}, mode : {288, C_ISUID + 493}]
    \cup [name : {Chars("a")}, type : {"dir", "symlink"}, content : {""}, mode : {493}]

\* Destinations of a restore: missing, a file, empty, with an empty
\* directory, with a file at the top and with a file further down
Destinations ==
  {NoTree, [NoTree EXCEPT !.kind = "file"], EmptyTree,
   [EmptyTree EXCEPT !.dirs = {<<Chars("secrets"), <<"n">>>>}],
   [EmptyTree EXCEPT !.files = {[path |-> WalkPaths[4], type |-> "reg",
                                 content |-> "c2", mode |-> 288]}],
   [EmptyTree EXCEPT !.files = {[path |-> WalkPaths[1], type |-> "reg",
                                 content |-> "c2", mode |-> 288]},
                     !.dirs = DirsAbove(SecretsDir, WalkPaths[1])]}

\* extractTar of a tarball into a destination
ExtractCall(tarball, dest) ==
  /\ call.op = "none"
  /\ call' = [op |-> "extract", tarball |-> tarball, dest |-> dest,
              res |-> ExtractTar(tarball, dest)]
  /\ UNCHANGED <<syncVars, writeVars, backupVars, entry, out>>

\* createTar of a tree and extractTar of the result into an empty directory
RoundTripCall(tree) ==
  /\ call.op = "none"
  /\ call' = [op |-> "roundtrip", tree |-> tree, tarball |-> CreateTar(tree),
              res |-> ExtractTar(CreateTar(tree), EmptyTree)]
  /\ UNCHANGED <<syncVars, writeVars, backupVars, entry, out>>

\* ------------------------------------------------------------------------
\* Backup encryption (backup/backup.go): encrypt, wrap, Unwrap and decrypt.
\* Bytes are 0 and 1; what AES-GCM and NaCl box seal is a record that opens
\* only with the key, the nonce and the key pair it was sealed with.
\* ------------------------------------------------------------------------

\* Length of a plaintext
MaxPlain == 2

\* Length of the AES key encrypt draws
KeySize == 16

\* aesgcm.NonceSize()
NonceSize == 12

\* Length of the nonce of a box
BoxNonceSize == 24

\* Length of a Curve25519 key
BoxKeySize == 32

\* box.Overhead
BoxOverhead == 16

\* Length Unwrap requires of the wrapped key's CipherText
WrappedSize == 32

\* n bytes from rand.Reader: all of them b
RandBytes(n, b) == [i \in 1..n |-> b]

\* Key pairs: the recipients' and the ephemeral senders' (box.GenerateKey)
Recipients == {"r1", "r2"}
Senders == {"e1", "e2"}
PublicKey(k) == [pub |-> k, len |-> BoxKeySize]
PrivateKey(k) == [priv |-> k, len |-> BoxKeySize]

\* box.Seal(nil, message, nonce, peersPublicKey, privateKey)
BoxSeal(message, nonce, peersPublicKey, privateKey) ==
  [shared |-> {peersPublicKey.pub, privateKey.priv}, nonce |-> nonce,
   message |-> message, len |-> Len(message) + BoxOverhead]

\* box.Open(nil, box, nonce, peersPublicKey, privateKey)
BoxOpen(sealed, nonce, peersPublicKey, privateKey) ==
  IF sealed.shared = {peersPublicKey.pub, privateKey.priv} /\ sealed.nonce = nonce
  THEN [ok |-> TRUE, message |-> sealed.message]
  ELSE [ok |-> FALSE, message |-> <<>>]

\* json.Marshal and json.Unmarshal of a []byte field: base64 text
Base64(bytes) == [b64 |-> bytes]
Unbase64(text) == text.b64

\* wrap(recipientPubkey, keyToWrap) with the sender's key pair and the nonce
\* that were drawn
Wrap(recipientPubkey, keyToWrap, sender, nonce) ==
  [Nonce |-> Base64(nonce),
   CipherText |-> Base64(BoxSeal(keyToWrap, nonce, recipientPubkey, PrivateKey(sender))),
   SenderPubkey |-> Base64(PublicKey(sender))]

\* Unwrap(wrapped, privateKey)
Unwrap(wrapped, privateKey) ==
  LET wrappedKey == [Nonce |-> Unbase64(wrapped.Nonce),
                     CipherText |-> Unbase64(wrapped.CipherText),
                     SenderPubkey |-> Unbase64(wrapped.SenderPubkey)]
  IN  IF \/ Len(wrappedKey.Nonce) # BoxNonceSize
         \/ wrappedKey.SenderPubkey.len # BoxKeySize
         \/ privateKey.len # BoxKeySize
         \/ wrappedKey.CipherText.len # WrappedSize
      THEN [ok |-> FALSE, key |-> <<>>]
      ELSE LET o == BoxOpen(wrappedKey.CipherText, wrappedKey.Nonce,
                            wrappedKey.SenderPubkey, privateKey)
           IN  [ok |-> o.ok, key |-> o.message]

\* aesgcm.Seal(dst, nonce, plaintext, nil) of the cipher made with key
GcmSeal(key, dst, nonce, plaintext) ==
  dst \o <<[key |-> key, nonce |-> nonce, plaintext |-> plaintext]>>

\* aesgcm.Open(nil, nonce, ciphertext, nil) of the cipher made with key
GcmOpen(key, nonce, ciphertext) ==
  IF /\ Len(ciphertext) = 1
     /\ ciphertext[1].key = key
     /\ ciphertext[1].nonce = nonce
  THEN [ok |-> TRUE, plaintext |-> ciphertext[1].plaintext]
  ELSE [ok |-> FALSE, plaintext |-> <<>>]

\* encrypt(data, pubkey) that returns the sealed data without the nonce
EncryptBare(data, pubkey, key, nonce, sender, boxNonce) ==
  [wrappedKey |-> Wrap(pubkey, key, sender, boxNonce),
   ciphertext |-> GcmSeal(key, <<>>, nonce, data)]

\* encrypt(data, pubkey) with the key, the nonces and the sender that were
\* drawn: the sealed data is appended to the nonce
Encrypt(data, pubkey, key, nonce, sender, boxNonce) ==
  [wrappedKey |-> Wrap(pubkey, key, sender, boxNonce),
   ciphertext |-> GcmSeal(key, nonce, nonce, data)]

\* Key lengths aes.NewCipher takes
AesKeySizes == {16, 24, 32}

\* decrypt(data, key): a key of another length than AES takes is an error;
\* the nonce is the first NonceSize bytes of data, and data[:nonceSize] of
\* shorter data panics (slice bounds out of range) instead of returning.
Decrypt(data, key) ==
  IF Len(key) \notin AesKeySizes
  THEN [ok |-> FALSE, panic |-> FALSE, plaintext |-> <<>>]
  ELSE IF Len(data) < NonceSize
  THEN [ok |-> FALSE, panic |-> TRUE, plaintext |-> <<>>]
  ELSE LET o == GcmOpen(key, SubSeq(data, 1, NonceSize), SubSeq(data, NonceSize + 1, Len(data)))
       IN  [ok |-> o.ok, panic |-> FALSE, plaintext |-> o.plaintext]

\* encrypt to pk, then Unwrap with sk and decrypt
CryptCall(data, pk, sk, b, sender) ==
  /\ call.op = "none"
  /\ LET e == Encrypt(data, PublicKey(pk), RandBytes(KeySize, b), RandBytes(NonceSize, 1 - b),
                      sender, RandBytes(BoxNonceSize, b))
         u == Unwrap(e.wrappedKey, PrivateKey(sk))
     IN  call' = [op |-> "crypt", data |-> data, pk |-> pk, sk |-> sk,
                  wrappedKey |-> e.wrappedKey, ciphertext |-> e.ciphertext,
                  unwrapped |-> u,
                  res |-> IF u.ok THEN Decrypt(e.ciphertext, u.key)
                          ELSE [ok |-> FALSE, panic |-> FALSE, plaintext |-> <<>>]]
  /\ UNCHANGED <<syncVars, writeVars, backupVars, entry, out>>

\* Lengths a backup file is cut to: empty, shorter than a nonce, the nonce
\* alone, whole
CutLengths == {0, 3, NonceSize, NonceSize + 1}

\* decrypt as FileBackup.Restore calls it, with the key of the backup, on
\* the first n bytes of the file encrypt produced
DecryptCall(data, n) ==
  /\ call.op = "none"
  /\ LET key == RandBytes(KeySize, 0)
         e == Encrypt(data, PublicKey("r1"), key, RandBytes(NonceSize, 1), "e1",
                      RandBytes(BoxNonceSize, 0))
         file == SubSeq(e.ciphertext, 1, n)
     IN  call' = [op |-> "decrypt", data |-> data, file |-> file, key |-> key,
                  res |-> Decrypt(file, key)]
  /\ UNCHANGED <<syncVars, writeVars, backupVars, entry, out>>

\* ------------------------------------------------------------------------
\* Default ownership (ownership/ownership.go): NewOwnership with a Lookup.
\* ------------------------------------------------------------------------

\* The users and groups of the Lookup, and the names asked for
Users == [test0 |-> 1000, test1 |-> 1001, test2 |-> 1002]
Groups == [group0 |-> 2000, group1 |-> 2001, group2 |-> 2002]
UserNames == {"", "test0", "test1", "test2", "user-doesnt-exist", "user-doesnt-exist2"}
GroupNames == {"", "group0", "group1", "group2", "group-doesnt-exist", "more-nonexist"}

\* Lookup.UID and Lookup.GID
LookupId(table, name) ==
  IF name \in DOMAIN table THEN [id |-> table[name], err |-> FALSE]
  ELSE [id |-> 0, err |-> TRUE]

\* One half of NewOwnership without the fallback
ResolveNoFallback(table, name, fallback, err) ==
  LET first == IF name # "" THEN LookupId(table, name) ELSE [id |-> 0, err |-> err]
  IN  IF first.err THEN [id |-> 0, err |-> TRUE] ELSE first

\* One half of NewOwnership: err is the function's err variable as the half
\* finds it; the name is looked up if it is not empty, the fallback if the
\* name is empty or err is set, and the id is 0 if the fallback fails too.
Resolve(table, name, fallback, err) ==
  LET first == IF name # "" THEN LookupId(table, name) ELSE [id |-> 0, err |-> err]
  IN  IF name = "" \/ first.err
      THEN LET second == LookupId(table, fallback)
           IN  IF second.err THEN [id |-> 0, err |-> TRUE] ELSE second
      ELSE first

\* NewOwnership(username, groupname, fallbackUser, fallbackGroup, lookup,
\* logger): the group half starts with the err the user half left
NewOwnership(username, groupname, fallbackUser, fallbackGroup) ==
  LET u == Resolve(Users, username, fallbackUser, FALSE)
      g == Resolve(Groups, groupname, fallbackGroup, u.err)
  IN  [UID |-> u.id, GID |-> g.id]

OwnershipCall(username, groupname, fallbackUser, fallbackGroup) ==
  /\ call.op = "none"
  /\ call' = [op |-> "ownership", username |-> username, groupname |-> groupname,
              fallbackUser |-> fallbackUser, fallbackGroup |-> fallbackGroup,
              res |-> NewOwnership(username, groupname, fallbackUser, fallbackGroup)]
  /\ UNCHANGED <<syncVars, writeVars, backupVars, entry, out>>

\* ------------------------------------------------------------------------
\* Syncer.Run as a loop over the results of its RunOnce passes.
\* ------------------------------------------------------------------------

\* Passes of RunOnce a Run is followed for
MaxPasses == 2

\* The errors one pass of RunOnce can return
PassErrors ==
  {<<>>, <<[msg |-> "e1"]>>, <<[msg |-> "e2"]>>, <<[msg |-> "e1"], [msg |-> "e2"]>>,
   <<[msg |-> "e2"], [msg |-> "e1"]>>}

\* The err of Run after a pass: nil, the one error, or fmt.Errorf("errors:
\* %v", errors) of several
RunErr(errors) ==
  IF Len(errors) = 0 THEN NilError
  ELSE IF Len(errors) = 1 THEN errors[1]
  ELSE [errorf |-> errors]

\* A Run that never returns
RunForever(pollInterval, results, i) ==
  [returned |-> FALSE, passes |-> Len(results), err |-> NilError]

RECURSIVE RunLoop(_, _, _)
\* Run's loop from the i-th pass on: with a poll interval of zero it
\* returns err after the pass, otherwise it sleeps and goes on.
RunLoop(pollInterval, results, i) ==
  IF pollInterval = 0
  THEN [returned |-> TRUE, passes |-> i, err |-> RunErr(results[i])]
  ELSE IF i < Len(results) THEN RunLoop(pollInterval, results, i + 1)
  ELSE [returned |-> FALSE, passes |-> i, err |-> NilError]

\* Run of a syncer with pollInterval whose passes return results
RunCall(pollInterval, results) ==
  /\ call.op = "none"
  /\ call' = [op |-> "run", pollInterval |-> pollInterval, results |-> results,
              res |-> RunLoop(pollInterval, results, 1)]
  /\ UNCHANGED <<syncVars, writeVars, backupVars, entry, out>>

\* ------------------------------------------------------------------------
\* POST /backup next to a sync pass: the pass holds syncMutex, writes its
\* files one by one, each as a temporary file that is filled and renamed,
\* and removes files and client directories; runBackup calls
\* FileBackup.Backup, whose createTar walks the secrets directory
\* (filepath.Walk: lstat and list a directory, then lstat the names listed
\* one after the other, the walk function opening and copying each),
\* encrypts the tarball and writes the ciphertext to BackupPath and the
\* wrapped key to BackupKeyPath.  Each POST /backup runs in the goroutine
\* of its request.
\* ------------------------------------------------------------------------

\* The files below the secrets directory that a pass can write, in the
\* lexical order of filepath.Walk, and the client directories
BackupPaths == {"c1/A", "c1/B", "c2/A"}
PathOrder == <<"c1/A", "c1/B", "c2/A">>
BackupDirs == <<"c1", "c2">>
DirOf(path) == IF path = "c2/A" THEN "c2" ELSE "c1"

NoSnapshot == [nosnapshot |-> TRUE]

\* Requests whose calls of Backup may overlap
Requests == {"q1", "q2"}

\* Calls of Backup in one behaviour of overlapping requests
MaxBackups == 3

\* Calls of Backup in one behaviour next to a pass
MaxWalks == 1

\* The size of the content renamed into place, against what the file of
\* that name held before
Sizes == {"same", "longer", "shorter"}

IdleProc == [pc |-> "idle", tar |-> <<>>, enc |-> NoFile]

\* The walk: dirs and names are the names listed and not yet reached, gone
\* the temporary files among them (and cur) whose name has left the tree
\* since (every temporary file has a random name of its own), cur the file
\* the walk function is at, stale how the content behind cur's name has
\* changed against the size lstat returned, missed whether the tar writer
\* got fewer bytes than the last header announced.
IdleWalk == [dirs |-> <<>>, names |-> <<>>, gone |-> {}, cur |-> NoFile, phase |-> "next",
             stale |-> "same", missed |-> FALSE, tar |-> {}, held |-> FALSE, todo |-> FALSE]

InitBackup ==
  /\ bk = [mutex |-> "free", pc |-> "idle", todo |-> {}, cur |-> "",
           files |-> {}, dirs |-> {"c1", "c2"}, walk |-> IdleWalk, snapshot |-> NoSnapshot]
  /\ pair = [backup |-> NoFile, key |-> NoFile, calls |-> 0,
             proc |-> [p \in Requests |-> IdleProc]]

TempOf(path) == [path |-> path, temp |-> TRUE]
FinalOf(path) == [path |-> path, temp |-> FALSE]

\* The names the walk has listed or is at
WalkNames(walk) == {walk.names[i] : i \in 1..Len(walk.names)} \cup {walk.cur}

\* The name of the temporary file of the pass leaves the tree (rename or
\* remove): the walk that listed it will not find it, and a descriptor the
\* walk holds on it is no longer the file the pass writes to
Unlinked(walk, path) ==
  IF TempOf(path) \in WalkNames(walk) THEN [walk EXCEPT !.gone = @ \cup {TempOf(path)}] ELSE walk

\* RunOnce or syncOne takes syncMutex; todo are the files the pass will write
BkLock(who, todo) ==
  /\ bk.mutex = "free"
  /\ bk' = [bk EXCEPT !.mutex = who, !.pc = "locked", !.todo = todo]
  /\ UNCHANGED <<syncVars, writeVars, callVars, pair>>

\* LoadClients builds the output of a client: NewOutput makes its directory
BkMkdir(dir) ==
  /\ bk.pc = "locked"
  /\ dir \notin bk.dirs
  /\ bk' = [bk EXCEPT !.dirs = @ \cup {dir}]
  /\ UNCHANGED <<syncVars, writeVars, callVars, pair>>

\* WriteFileAtomically makes the client directory if it is missing and
\* creates the temporary file of the next file, empty
BkOpenFile(path) ==
  /\ bk.pc = "locked"
  /\ path \in bk.todo
  /\ bk' = [bk EXCEPT !.pc = "writing", !.cur = path,
                      !.dirs = @ \cup {DirOf(path)},
                      !.files = @ \cup {TempOf(path)}]
  /\ UNCHANGED <<syncVars, writeVars, callVars, pair>>

\* WriteFileAtomically writes the content to the temporary file: a walk
\* that has taken the size of this file while it was empty now has a file
\* longer than that
BkWrite ==
  /\ bk.pc = "writing"
  /\ bk' = [bk EXCEPT !.pc = "written",
                      !.walk = IF /\ bk.walk.cur = TempOf(bk.cur)
                                  /\ bk.walk.phase \in {"lstat", "open"}
                                  /\ TempOf(bk.cur) \notin bk.walk.gone
                               THEN [@ EXCEPT !.stale = "longer"] ELSE @]
  /\ UNCHANGED <<syncVars, writeVars, callVars, pair>>

\* WriteFileAtomically renames the temporary file to the file; size is that
\* of the new content against the content a walk has taken the size of
BkRename(size) ==
  /\ bk.pc = "written"
  /\ bk' = [bk EXCEPT !.pc = "locked", !.cur = "", !.todo = @ \ {bk.cur},
                      !.files = (@ \ {TempOf(bk.cur)}) \cup {FinalOf(bk.cur)},
                      !.walk = IF bk.walk.cur = FinalOf(bk.cur) /\ bk.walk.phase = "lstat"
                               THEN [Unlinked(@, bk.cur) EXCEPT !.stale = size]
                               ELSE Unlinked(@, bk.cur)]
  /\ UNCHANGED <<syncVars, writeVars, callVars, pair>>

\* WriteFileAtomically returns an error after it created the temporary
\* file: the deferred os.Remove takes the temporary file away
BkAbort ==
  /\ bk.pc \in {"writing", "written"}
  /\ bk' = [bk EXCEPT !.pc = "locked", !.cur = "", !.todo = @ \ {bk.cur},
                      !.files = @ \ {TempOf(bk.cur)},
                      !.walk = Unlinked(@, bk.cur)]
  /\ UNCHANGED <<syncVars, writeVars, callVars, pair>>

\* The pass removes a file: Sync the file of a secret no longer listed and
\* the unknown files Cleanup finds, RemoveAll the files of a client that is
\* gone
BkRemove(path) ==
  /\ bk.pc = "locked"
  /\ FinalOf(path) \in bk.files
  /\ bk' = [bk EXCEPT !.files = @ \ {FinalOf(path)}]
  /\ UNCHANGED <<syncVars, writeVars, callVars, pair>>

\* RemoveAll removes the directory of a client that is gone, its files
\* removed
BkRmdir(dir) ==
  /\ bk.pc = "locked"
  /\ dir \in bk.dirs
  /\ \A f \in bk.files : DirOf(f.path) # dir
  /\ bk' = [bk EXCEPT !.dirs = @ \ {dir}]
  /\ UNCHANGED <<syncVars, writeVars, callVars, pair>>

\* The pass is over and its deferred Unlock runs
BkUnlock ==
  /\ bk.pc = "locked"
  /\ bk.todo = {}
  /\ bk' = [bk EXCEPT !.mutex = "free", !.pc = "idle"]
  /\ UNCHANGED <<syncVars, writeVars, callVars, pair>>

RECURSIVE Listing(_, _, _)
\* readDirNames of client directory dir: the names in it, sorted; the
\* temporary file of a path has the path as a prefix and comes right
\* after it.
Listing(files, dir, i) ==
  IF i > Len(PathOrder) THEN <<>>
  ELSE (IF DirOf(PathOrder[i]) = dir /\ FinalOf(PathOrder[i]) \in files
        THEN <<FinalOf(PathOrder[i])>> ELSE <<>>)
       \o (IF DirOf(PathOrder[i]) = dir /\ TempOf(PathOrder[i]) \in files
           THEN <<TempOf(PathOrder[i])>> ELSE <<>>)
       \o Listing(files, dir, i + 1)

\* The client directories there are, sorted
DirListing(dirs) == SelectSeq(BackupDirs, LAMBDA d : d \in dirs)

\* The walk reads the tree: held and todo keep whether it ever did so with
\* syncMutex held by a pass, and with files the pass had still to write
Seen(walk) == [walk EXCEPT !.held = @ \/ bk.mutex # "free", !.todo = @ \/ bk.todo # {}]

\* createTar returns the error err, Backup returns it and runBackup
\* answers 500
Failed(err) ==
  /\ bk' = [bk EXCEPT !.walk = IdleWalk,
                      !.snapshot = [err |-> err, files |-> {},
                                    held |-> Seen(bk.walk).held,
                                    todo |-> Seen(bk.walk).todo]]
  /\ pair' = [pair EXCEPT !.proc["q1"] = IdleProc]

\* runBackup of request q1: 503 when no backup is configured; otherwise
\* Backup calls createTar, and filepath.Walk lists the secrets directory.
\* No lock is taken.
BkBackup(configured) ==
  /\ pair.proc["q1"].pc = "idle"
  /\ pair.calls < MaxWalks
  /\ IF configured
     THEN /\ bk' = [bk EXCEPT !.walk = Seen([IdleWalk EXCEPT !.dirs = DirListing(bk.dirs)])]
          /\ pair' = [pair EXCEPT !.calls = @ + 1, !.proc["q1"].pc = "walking"]
     ELSE /\ bk' = [bk EXCEPT !.snapshot = [err |-> "unconfigured", files |-> {},
                                            held |-> FALSE, todo |-> FALSE]]
          /\ pair' = [pair EXCEPT !.calls = @ + 1]
  /\ UNCHANGED <<syncVars, writeVars, callVars>>

\* filepath.Walk reaches the next client directory listed: lstat, which
\* fails when the pass has removed the directory
BkLstatDir ==
  /\ pair.proc["q1"].pc = "walking"
  /\ bk.walk.phase = "next"
  /\ bk.walk.names = <<>> /\ bk.walk.dirs # <<>>
  /\ IF Head(bk.walk.dirs) \in bk.dirs
     THEN /\ bk' = [bk EXCEPT !.walk = Seen([bk.walk EXCEPT !.phase = "dir"])]
          /\ UNCHANGED pair
     ELSE Failed("lstat")
  /\ UNCHANGED <<syncVars, writeVars, callVars>>

\* filepath.Walk lists the client directory (readDirNames); the walk
\* function returns the error of a directory that is gone
BkReadDir ==
  /\ pair.proc["q1"].pc = "walking"
  /\ bk.walk.phase = "dir"
  /\ IF Head(bk.walk.dirs) \in bk.dirs
     THEN /\ bk' = [bk EXCEPT !.walk = Seen([bk.walk EXCEPT
                                               !.names = Listing(bk.files, Head(bk.walk.dirs), 1),
                                               !.dirs = Tail(@),
                                               !.phase = "next"])]
          /\ UNCHANGED pair
     ELSE Failed("readdir")
  /\ UNCHANGED <<syncVars, writeVars, callVars>>

\* The name f is in the tree: a file of that path, and for a temporary file
\* the one that was listed
InTree(f) == f \in bk.files /\ f \notin bk.walk.gone

\* filepath.Walk reaches the next name listed: lstat, which gives the size
\* the tar header will announce; the walk function returns the error of a
\* name that is gone
BkLstat ==
  /\ pair.proc["q1"].pc = "walking"
  /\ bk.walk.phase = "next"
  /\ bk.walk.names # <<>>
  /\ IF InTree(Head(bk.walk.names))
     THEN /\ bk' = [bk EXCEPT !.walk = Seen([bk.walk EXCEPT
                                               !.cur = Head(bk.walk.names),
                                               !.names = Tail(@),
                                               !.stale = "same",
                                               !.phase = "lstat"])]
          /\ UNCHANGED pair
     ELSE Failed("lstat")
  /\ UNCHANGED <<syncVars, writeVars, callVars>>

\* The walk function opens the file by its name
BkOpen ==
  /\ pair.proc["q1"].pc = "walking"
  /\ bk.walk.phase = "lstat"
  /\ IF InTree(bk.walk.cur)
     THEN /\ bk' = [bk EXCEPT !.walk = Seen([bk.walk EXCEPT !.phase = "open"])]
          /\ UNCHANGED pair
     ELSE Failed("open")
  /\ UNCHANGED <<syncVars, writeVars, callVars>>

\* The walk function writes the header, with the size lstat gave, and
\* copies the file opened.  WriteHeader fails when the file before got
\* fewer bytes than its header announced, io.Copy when the file holds more
\* than the header announces (tar.ErrWriteTooLong).
BkCopy ==
  /\ pair.proc["q1"].pc = "walking"
  /\ bk.walk.phase = "open"
  /\ IF bk.walk.missed THEN Failed("header")
     ELSE IF bk.walk.stale = "longer" THEN Failed("copy")
     ELSE /\ bk' = [bk EXCEPT !.walk = Seen([bk.walk EXCEPT
                                               !.tar = @ \cup {bk.walk.cur},
                                               !.missed = bk.walk.stale = "shorter",
                                               !.gone = @ \ {bk.walk.cur},
                                               !.cur = NoFile,
                                               !.stale = "same",
                                               !.phase = "next"])]
          /\ UNCHANGED pair
  /\ UNCHANGED <<syncVars, writeVars, callVars>>

\* The walk is over: tw.Close, which fails when the last file got fewer
\* bytes than its header announced, and createTar returns the tarball
BkTarred ==
  /\ pair.proc["q1"].pc = "walking"
  /\ bk.walk.phase = "next"
  /\ bk.walk.names = <<>> /\ bk.walk.dirs = <<>>
  /\ IF bk.walk.missed THEN Failed("close")
     ELSE /\ bk' = [bk EXCEPT !.walk = IdleWalk,
                              !.snapshot = [err |-> "none", files |-> bk.walk.tar,
                                            held |-> bk.walk.held, todo |-> bk.walk.todo]]
          /\ pair' = [pair EXCEPT !.proc["q1"] = [pc |-> "tarred", tar |-> bk.walk.tar,
                                                  enc |-> NoFile]]
  /\ UNCHANGED <<syncVars, writeVars, callVars>>

\* The tarball createTar returns of a tree no pass is writing to
Tarball == <<1, 0>>

\* Backup of request p on a tree no pass is writing to: createTar
PairCreateTar(p) ==
  /\ pair.proc[p].pc = "idle"
  /\ pair.calls < MaxBackups
  /\ pair' = [pair EXCEPT !.calls = @ + 1,
                          !.proc[p] = [pc |-> "tarred", tar |-> Tarball, enc |-> NoFile]]
  /\ UNCHANGED <<syncVars, writeVars, callVars, bk>>

\* encrypt(tarball, b.Pubkey): b is the byte rand.Reader yields for the key
PairEncrypt(p, b) ==
  /\ pair.proc[p].pc = "tarred"
  /\ pair' = [pair EXCEPT
       !.proc[p] = [pc |-> "encrypted", tar |-> <<>>,
                    enc |-> Encrypt(pair.proc[p].tar, PublicKey("r1"), RandBytes(KeySize, b),
                                    RandBytes(NonceSize, 1 - b), "e1",
                                    RandBytes(BoxNonceSize, b))]]
  /\ UNCHANGED <<syncVars, writeVars, callVars, bk>>

\* WriteFileAtomically(b.BackupPath, ..., encrypted): an error returns
PairWriteBackup(p, ok) ==
  /\ pair.proc[p].pc = "encrypted"
  /\ pair' = IF ok
             THEN [pair EXCEPT !.backup = pair.proc[p].enc.ciphertext,
                               !.proc[p].pc = "written"]
             ELSE [pair EXCEPT !.proc[p] = IdleProc]
  /\ UNCHANGED <<syncVars, writeVars, callVars, bk>>

\* WriteFileAtomically(b.BackupKeyPath, ..., wrapped) and return
PairWriteKey(p, ok) ==
  /\ pair.proc[p].pc = "written"
  /\ pair' = [pair EXCEPT
       !.key = IF ok THEN pair.proc[p].enc.wrappedKey ELSE @,
       !.proc[p] = IdleProc]
  /\ UNCHANGED <<syncVars, writeVars, callVars, bk>>

NextBackup ==
  \/ \E who \in {"RunOnce", "syncOne"}, todo \in SUBSET BackupPaths : BkLock(who, todo)
  \/ \E dir \in {"c1", "c2"} : BkMkdir(dir)
  \/ \E path \in BackupPaths : BkOpenFile(path)
  \/ BkWrite
  \/ \E size \in Sizes : BkRename(size)
  \/ BkAbort
  \/ \E path \in BackupPaths : BkRemove(path)
  \/ \E dir \in {"c1", "c2"} : BkRmdir(dir)
  \/ BkUnlock
  \/ \E configured \in BOOLEAN : BkBackup(configured)
  \/ BkLstatDir
  \/ BkReadDir
  \/ BkLstat
  \/ BkOpen
  \/ BkCopy
  \/ BkTarred
  \/ PairEncrypt("q1", 0)
  \/ \E ok \in BOOLEAN : PairWriteBackup("q1", ok)
  \/ \E ok \in BOOLEAN : PairWriteKey("q1", ok)

NextPair ==
  \/ \E p \in Requests : PairCreateTar(p)
  \/ \E p \in Requests, b \in {0, 1} : PairEncrypt(p, b)
  \/ \E p \in Requests, ok \in BOOLEAN : PairWriteBackup(p, ok)
  \/ \E p \in Requests, ok \in BOOLEAN : PairWriteKey(p, ok)

vars == <<syncVars, writeVars, callVars, backupVars>>

Next ==
  \/ \E t \in Threads : RunOnceLock(t)
  \/ \E t \in Threads : RunOnceLoad(t)
  \/ \E t \in Threads : RunOnceSync(t)
  \/ \E t \in Threads : RunOnceCleanup(t)
  \/ RunAfterPass
  \/ SyncAllRespond
  \/ \E c \in Clients : SyncOneLock(c)
  \/ SyncOneLoad
  \/ SyncOneSync
  \/ SyncOneFinish
  \/ \E c \in Clients, n \in Names, v \in {0} \cup Versions : ServerChange(c, n, v)
  \/ \E c \in Clients, v \in {0} \cup CfgVersions : ConfigChange(c, v)
  \/ \E c \in Clients, f \in Filenames, how \in {"chmod", "chown", "corrupt", "delete", "create"} : Tamper(c, f, how)
  \/ \E d \in {1, PollInterval * FailureThresholdMultiplier + 1} : Tick(d)
  \/ Status
  \/ \E n \in TopNames : TopCreate(n)

Init == InitSync /\ InitWrite /\ InitCall /\ InitBackup

Spec == Init /\ [][Next]_vars

NextWrite ==
  \/ \E content \in WContents, mode \in WModes, owner \in WOwners, chown, enforce \in BOOLEAN :
       WfCall(content, mode, owner, chown, enforce)
  \/ \E ok \in BOOLEAN : WfMkdirAll(ok)
  \/ \E ok \in BOOLEAN : WfOpenFile(ok)
  \/ \E ok \in BOOLEAN : WfChown(ok)
  \/ \E ok \in BOOLEAN : WfChmod(ok)
  \/ \E good \in BOOLEAN : WfFsCheck(good)
  \/ \E ok \in BOOLEAN : WfWrite(ok)
  \/ \E ok \in BOOLEAN : WfStat(ok)
  \/ \E ok \in BOOLEAN : WfRename(ok)
  \/ WfDefer
  \/ RdOpen
  \/ RdRead
  \/ RdClose

SpecWrite == Init /\ [][NextWrite]_vars

\* A SyncState as a Sync of a full catalog into an empty directory leaves it
SyncedState ==
  LET srv == [n \in Names |-> 1]
      allOk == [f \in Filenames |-> "ok"]
      wrOk == [f \in Filenames |-> "ok"]
  IN  Sync(NoSyncState, EmptyDir, srv, TRUE, allOk, wrOk, CHOOSE o \in Orders : TRUE).st

\* Registries a Syncer may hold when LoadClients is called
Registries ==
  [Clients -> {NoEntry} \cup [config : CfgVersions, SyncState : {NoSyncState, SyncedState}]]

\* One call of Syncer.LoadClients on the registry cl, the configuration
\* read being conf
LoadCall(cl, conf, buildOk) ==
  /\ call.op = "none"
  /\ call' = [op |-> "load", cl |-> cl, conf |-> conf, buildOk |-> buildOk,
              res |-> LoadClients(cl, conf,
                                  [c \in Clients |-> IF cl[c] = NoEntry THEN NoDir ELSE EmptyDir],
                                  buildOk)]
  /\ UNCHANGED <<syncVars, writeVars, backupVars, entry, out>>

\* What NewSyncer leaves in the two fields GET /status reads
NewSyncerState == [lastSuccessAt |-> 0, lastError |-> NilError]

RECURSIVE RunState(_, _, _)
\* Run's loop from its i-th pass on, the passes returning results and the
\* i-th ending at time i * PollInterval: a pass without errors records the
\* time of its end; no pass touches lastError.
RunState(results, i, s) ==
  IF i > Len(results) THEN s
  ELSE RunState(results, i + 1,
                [s EXCEPT !.lastSuccessAt = IF Len(results[i]) = 0 THEN i * PollInterval
                                            ELSE @])

\* The time between the last pass and a GET /status: none, and the two
\* around the threshold when the success is one poll interval old
Gaps == {0, PollInterval * FailureThresholdMultiplier - PollInterval,
         PollInterval * FailureThresholdMultiplier}

\* GET /status, gap after the last of the passes of a Run that returned
\* results
StatusCall(results, gap) ==
  /\ call.op = "none"
  /\ call' = LET s == RunState(results, 1, NewSyncerState)
                 t == Len(results) * PollInterval + gap
             IN  [op |-> "status", results |-> results, gap |-> gap, now |-> t,
                  res |-> StatusOf(s.lastSuccessAt, t, s.lastError)]
  /\ UNCHANGED <<syncVars, writeVars, backupVars, entry, out>>

\* The directory names two clients can be configured with: their own
\* names, the default, or the same name for both
DirNameChoices == {[c \in Clients |-> c], [c \in Clients |-> "c1"]}

\* What a directory holds after the Sync that gave SyncedState
SyncedFiles ==
  LET srv == [n \in Names |-> 1]
      allOk == [f \in Filenames |-> "ok"]
  IN  Sync(NoSyncState, EmptyDir, srv, TRUE, allOk, allOk, CHOOSE o \in Orders : TRUE).files

\* RunOnce after the Sync of c2 returned r: the pending cleanup (how: the
\* way RemoveAll of the directory of c1 ends; range: the order of its loop)
\* and the top-level sweep of what it leaves
RemovalSweep(l, r, p, dirOf) ==
  LET s == CollectionCleanup(p.disk, [n \in TopNames |-> "none"],
                             {dirOf[c] : c \in Active(l.clients)}, TRUE,
                             [n \in Clients \cup TopNames |-> "ok"])
  IN  [clients |-> [l.clients EXCEPT !["c2"].SyncState = r.st],
       tree |-> s.disk, pending |-> l.pending, errors |-> p.errors \o s.errors]

RemovalCleanup(l, r, tree, dirOf, how, range) ==
  RemovalSweep(l, r,
               PendingCleanup([tree EXCEPT ![dirOf["c2"]] = r.files], l.pending, dirOf,
                              [d \in Clients |-> how], range),
               dirOf)

\* RunOnce after LoadClients returned l: the Sync of the entry that remains
RemovalSync(l, tree, dirOf, how, order, range) ==
  RemovalCleanup(l,
                 Sync(l.clients["c2"].SyncState, tree[dirOf["c2"]], [n \in Names |-> 1], TRUE,
                      [f \in Filenames |-> "ok"], [f \in Filenames |-> "ok"], order),
                 tree, dirOf, how, range)

\* RunOnce of a Syncer whose clients cl have been synced into tree, read
\* with the configuration conf
RemovalRun(cl, conf, tree, dirOf, how, order, range) ==
  RemovalSync(LoadClients(cl, conf, [c \in Clients |-> tree[dirOf[c]]],
                          [c \in Clients |-> TRUE]),
              tree, dirOf, how, order, range)

\* The directories of two synced clients with the directory names dirOf
SyncedTree(dirOf) ==
  [d \in Clients |-> IF \E c \in Clients : dirOf[c] = d THEN SyncedFiles ELSE NoDir]

\* RunOnce of a Syncer whose two clients, with the directory names dirOf,
\* have both been synced, after c1 has left the configuration.
RemovalCall(dirOf, how, order, range) ==
  /\ call.op = "none"
  /\ call' = [op |-> "removal", dirOf |-> dirOf, how |-> how, order |-> order,
              range |-> range,
              before |-> [clients |-> [c \in Clients |-> [config |-> 1, SyncState |-> SyncedState]],
                          tree |-> SyncedTree(dirOf)],
              res |-> RemovalRun([c \in Clients |-> [config |-> 1, SyncState |-> SyncedState]],
                                 [c \in Clients |-> IF c = "c1" THEN 0 ELSE 1],
                                 SyncedTree(dirOf), dirOf, how, order, range)]
  /\ UNCHANGED <<syncVars, writeVars, backupVars, entry, out>>

\* pendingCleanup.cleanup of a Syncer whose two clients have been synced,
\* with the clients pending in its map; rmOut is how RemoveAll of each
\* directory ends and range the order of the loop.
PendingCall(pending, rmOut, range) ==
  /\ call.op = "none"
  /\ call' = [op |-> "pending", pending |-> pending, rmOut |-> rmOut, range |-> range,
              before |-> SyncedTree(DirNames),
              res |-> PendingCleanup(SyncedTree(DirNames), pending, DirNames, rmOut, range)]
  /\ UNCHANGED <<syncVars, writeVars, backupVars, entry, out>>

\* NewSyncerFromFile: a Syncer with client reloading disabled, one entry
\* whose client is the bundle client and whose output NewOutput has built
\* (os.MkdirAll makes the client directory dir if it is missing and leaves
\* an existing one as it is), and no outputCollection (the literal leaves
\* the field at its zero value, a nil interface).
NewSyncerFromFile(parsed, dir) ==
  LET b == BundleSecretList(parsed)
  IN  IF ~b.ok THEN [ok |-> FALSE]
      ELSE [ok |-> TRUE, disableClientReloading |-> TRUE, outputCollection |-> "nil",
            secrets |-> b.secrets, SyncState |-> NoSyncState,
            files |-> IF dir = NoDir THEN EmptyDir ELSE dir]

RECURSIVE BundleSync(_, _, _, _)
\* syncerEntry.Sync with a bundle client.  The range over the listing in
\* the map order: skip what is still valid, fetch by Name (a Name the
\* bundle does not hold is an error other than SecretDeleted), write, keep
\* the state if the file validates.  Then the state no longer listed is
\* queued, the queue is removed and the directory is swept.
\*   acc = [st, files, pending, updated, ops, meddle]
BundleSync(secrets, order, i, acc) ==
  IF i > Len(order)
  THEN SweepStep(DeleteLoop(StaleLoop(acc, secrets, order, 1), 1), secrets,
                 [f \in Filenames |-> "ok"])
  ELSE IF order[i] \notin DOMAIN secrets
  THEN BundleSync(secrets, order, i + 1, acc)
  ELSE LET f == order[i]
           got == BundleSecret(secrets, secrets[f].Name)
           w == Write(acc.files, got.secret, "ok")
           opGet == [op |-> "get", file |-> f, ok |-> got.ok,
                     out |-> IF got.ok THEN "none" ELSE "error"]
           opWrite == [op |-> "write", file |-> Filename(got.secret).name, ok |-> w.ok, out |-> ""]
           next == IF StillValid(secrets[f], acc.st, acc.files, f)
                   THEN acc
                   ELSE IF ~got.ok
                   THEN [acc EXCEPT !.ops = Append(@, opGet)]
                   ELSE IF ~w.ok
                   THEN [acc EXCEPT !.files = w.files, !.ops = @ \o <<opGet, opWrite>>]
                   ELSE IF ~Validate(got.secret, w.state, w.files)
                   THEN [acc EXCEPT !.files = w.files,
                                    !.st = [@ EXCEPT ![f] = NoState],
                                    !.ops = @ \o <<opGet, opWrite>>]
                   ELSE [acc EXCEPT !.files = w.files,
                                    !.st = [@ EXCEPT ![f] = w.state],
                                    !.updated = [@ EXCEPT !.Added = @ + 1],
                                    !.ops = @ \o <<opGet, opWrite>>]
       IN  BundleSync(secrets, order, i + 1, next)

\* Syncer.RunOnce of a Syncer built by NewSyncerFromFile: LoadClients
\* returns a nil pendingCleanup and touches no entry, the entry syncs (a
\* Sync of a bundle client returns no error) and its counts are added
\* to updated by Updated.Add, cleanup of the nil pendingCleanup removes
\* nothing, and the call of Cleanup on the outputCollection panics when
\* the interface is nil: updated is what RunOnce holds at that point.
RunOnceFromFile(s, order) ==
  LET synced == BundleSync(s.secrets, order, 1,
                           [st |-> s.SyncState, files |-> s.files, pending |-> <<>>,
                            updated |-> ZeroUpdated, ops |-> <<>>, meddle |-> {}])
  IN  [reloaded |-> ~s.disableClientReloading,
       pendingCleanup |-> IF s.disableClientReloading THEN "nil" ELSE "loaded",
       files |-> synced.files,
       SyncState |-> synced.st,
       ops |-> synced.ops,
       outcome |-> IF s.outputCollection = "nil" THEN "panic" ELSE "returned",
       updated |-> Add(ZeroUpdated, synced.updated),
       errors |-> <<>>]

\* keyrestore: NewSyncerFromFile on the bundle parsed, for a client
\* directory that is missing (dir = NoDir) or holds what an earlier run
\* left, then RunOnce
RestoreCall(parsed, dir, order) ==
  /\ call.op = "none"
  /\ call' = LET s == NewSyncerFromFile(parsed, dir)
             IN  [op |-> "restore", parsed |-> parsed, dir |-> dir, built |-> s.ok,
                  res |-> IF s.ok THEN RunOnceFromFile(s, order) ELSE [outcome |-> "none"]]
  /\ UNCHANGED <<syncVars, writeVars, backupVars, entry, out>>

NextCall ==
  \/ \E name \in PathNames, override \in PathNames \cup {NoOverride} : WriteCall(name, override)
  \/ \E n \in 0..MaxModeLen : \E mode \in [1..n -> ModeDigits] : ModeCall(mode)
  \/ \E n \in 0..MaxList : \E parsed \in [1..n -> ListSecrets] : ListCall(parsed)
  \/ \E srv \in Catalogs, order \in Orders, meddle \in SUBSET Filenames :
       EntrySync(srv, order, meddle)
  \/ \E secret \in WriteSecrets : OutWrite(secret)
  \/ \E secret \in WriteSecrets, dir \in {NoDir, Leftover}, wrOk \in WriteResults :
       DirWrite(secret, dir, wrOk)
  \/ \E how \in {"chmod", "chown", "chgrp", "content", "remove"} : OutChange(how)
  \/ \E secret \in ValidateSecrets(out.secret) : ValidateCall(secret)
  \/ \E maxRetries \in 0..MaxRetries : \E answers \in [1..maxRetries -> Answers] :
       RetryCall(maxRetries, answers)
  \/ \E n \in 0..MaxEntries : \E tarball \in [1..n -> TarEntries], dest \in Destinations :
       ExtractCall(tarball, dest)
  \/ \E tree \in SourceTrees : RoundTripCall(tree)
  \/ \E n \in 0..MaxPlain : \E data \in [1..n -> {0, 1}], pk, sk \in Recipients, b \in {0, 1}, sender \in Senders :
       CryptCall(data, pk, sk, b, sender)
  \/ \E n \in 0..MaxPlain : \E data \in [1..n -> {0, 1}], cut \in CutLengths :
       DecryptCall(data, cut)
  \/ \E username, fallbackUser \in UserNames, groupname, fallbackGroup \in GroupNames :
       OwnershipCall(username, groupname, fallbackUser, fallbackGroup)
  \/ \E pollInterval \in {0, PollInterval} : \E n \in 1..MaxPasses : \E results \in [1..n -> PassErrors] :
       RunCall(pollInterval, results)
  \/ \E cl \in Registries, conf \in [Clients -> {0} \cup CfgVersions] :
       \E buildOk \in BuildOutcomes(cl, conf) : LoadCall(cl, conf, buildOk)
  \/ \E n \in 1..MaxPasses : \E results \in [1..n -> PassErrors], gap \in Gaps :
       StatusCall(results, gap)
  \/ \E dirOf \in DirNameChoices, how \in RemoveResults, order \in Orders, range \in RangeOrders :
       RemovalCall(dirOf, how, order, range)
  \/ \E pending \in SUBSET Clients, rmOut \in [Clients -> RemoveResults], range \in RangeOrders :
       PendingCall(pending, rmOut, range)
  \/ \E n \in 0..MaxList :
       \E parsed \in [1..n -> ListSecrets], dir \in {NoDir, Leftover}, order \in Orders :
         RestoreCall(parsed, dir, order)

SpecCall == Init /\ [][NextCall]_vars

SpecBackup == Init /\ [][NextBackup]_vars

SpecPair == Init /\ [][NextPair]_vars

TypeOK ==
  /\ quiet \in [q : {"no", "trying", "faulted", "errfree", "retrying", "yes"},
                failed : SUBSET (Clients \X Filenames)]
  /\ syncMutex \in {"free"} \cup Threads
  /\ lastSuccessAt \in 0..now
  /\ top \in [TopNames -> {"none", "file", "dir"}]
  /\ lastError = NilError \/ lastError \in [src : {"list", "config"}, client : Clients \cup {""}]

\* ------------------------------------------------------------------------
\* Properties
\* ------------------------------------------------------------------------

\* A thread is inside a sync activity: between Lock and Unlock of RunOnce
\* or of syncOne.
InSync(t) == pc[t] \in {"ro_locked", "ro_sync", "so_locked", "so_sync", "so_defer"}

SyncStates == [c \in Clients |-> IF clients[c] = NoEntry THEN NoEntry ELSE clients[c].SyncState]

C1_Step ==
  /\ \A t1, t2 \in Threads : (InSync(t1)' /\ InSync(t2)') => t1 = t2
  /\ \A t \in Threads : InSync(t)' => syncMutex' = t
  /\ (clients' # clients) => \E t \in Threads : syncMutex = t /\ InSync(t) /\ syncMutex' = t

\* C1: all reconciliation is serialized by the sync mutex: no two threads
\* are inside a sync activity (a RunOnce of the polling loop, a RunOnce of
\* POST /sync, a syncOne) at the same time, a thread inside one holds the
\* mutex, and the registry and the SyncState maps change only in a step of
\* the thread that holds the mutex.
C1_Serialized == [][C1_Step]_vars

\* C1 witness: the API syncs one client, holding the mutex, after an earlier
\* pass filled a SyncState, while the polling loop is between passes.
C1_Witness ==
  /\ syncMutex = "api" /\ pc["api"] = "so_defer" /\ pc["poller"] = "idle"
  /\ ev.kind = "sync" /\ ev.thread = "api"
  /\ \E c \in Clients : clients[c] # NoEntry /\ ev.preState # NoSyncState /\ ev.client = c

\* C2: atomic replacement.  Whatever step WriteFileAtomically has reached
\* and whether it goes on or fails there, the final path names no file or
\* the complete file of the previous call or the complete file of this call
\* (all its bytes, its final mode and owner); a call that returned an error
\* left the previous file, a call that returned without error left the new
\* one; what a reader opened at the final path is and stays such a complete
\* file, never a prefix of the bytes, never mode 0000; and the temporary
\* file is not readable (mode other than 0000) before it has its owner.
C2_Atomic ==
  /\ FileAt("final") \in {wr.before, Want(wr)}
  /\ FileAt("final") # NoFile => FileAt("final") \in wr.hist
  /\ (wr.pc = "idle" /\ wr.ret = "error") => FileAt("final") = wr.before
  /\ (wr.pc = "idle" /\ wr.ret = "ok") => FileAt("final") = Want(wr)
  /\ rd.fd # 0 => inode[rd.fd] \in wr.hist
  /\ rd.pc = "read" => rd.seen \in wr.hist
  /\ (FileAt("tmp") # NoFile /\ FileAt("tmp").mode # 0) =>
        /\ FileAt("tmp").uid = Want(wr).uid
        /\ FileAt("tmp").gid = Want(wr).gid

\* A reader read the complete previous file while the next call, writing
\* other bytes for another owner, had put half of them in its temporary file.
C2_Witness ==
  /\ wr.n = 2 /\ wr.pc = "write" /\ wr.chownFiles
  /\ Len(FileAt("tmp").content) = 1
  /\ rd.pc = "read" /\ rd.seen = wr.before /\ rd.seen = FileAt("final")
  /\ rd.seen.content # wr.content /\ rd.seen.uid # wr.fileInfo.UID

\* ------------------------------------------------------------------------
\* Properties of one Sync and of one pass
\* ------------------------------------------------------------------------

FilesIn(files) == IF files = NoDir THEN {} ELSE {f \in Filenames : files[f] # NoFile}

FileIn(files, f) == IF files = NoDir THEN NoFile ELSE files[f]

\* The Sync of the last step did operation op on filename f
HasOp(op, f) == \E i \in 1..Len(ev.ops) : ev.ops[i].op = op /\ ev.ops[i].file = f

\* The last step was a Sync whose listing succeeded
Synced == ev.kind = "sync" /\ ~ev.err

\* The statement of C3 as the spec has it: after a run_once, the filenames in
\* the directory of every client it listed are exactly the listed ones.
C3_Original ==
  ev.kind = "runonce_end" =>
    \A rec \in ev.catalogs : FilesIn(disk[rec.client]) = rec.names

\* C3: deletion correctness.  After a run_once that listed catalog C for an
\* active client, a filename in the client's directory that is not of C is
\* an entry the sweep of that pass could not remove, and a filename of C
\* that is not in the directory is one whose fetch (a 404 included) or write
\* failed in that pass; both are only logged.  The filenames in the
\* directory are those of C, less the ones lost, plus the ones stuck.
C3_Deletion ==
  ev.kind = "runonce_end" =>
    \A rec \in ev.catalogs :
      LET present == FilesIn(disk[rec.client]) IN
      /\ present \ rec.names = rec.stuck
      /\ rec.names \ present \subseteq rec.lost
      /\ (rec.stuck = {} /\ rec.lost = {}) => present = rec.names

\* A pass ended for a client whose directory held A and B from an earlier
\* run and whose catalog lists only B: B holds the server's bytes, and A,
\* which os.Remove could not remove, is still there with no error returned.
C3_Witness ==
  /\ ev.kind = "runonce_end"
  /\ ev.errors = <<>>
  /\ \E rec \in ev.catalogs :
       /\ rec.names = {"B"} /\ rec.stuck = {"A"} /\ rec.lost = {}
       /\ FilesIn(disk[rec.client]) = {"A", "B"}
       /\ disk[rec.client]["B"].content = "world"
       /\ clients[rec.client].SyncState["B"] # NoState

\* C4: incremental sync.  A listed secret whose filename has a SyncState
\* entry that validates against the listing is not fetched and not written
\* by that Sync, and its entry and its file are afterwards what they were.
C4_Incremental ==
  Synced =>
    \A f \in DOMAIN ev.secrets :
      (ev.preState[f] # NoState /\ Validate(ev.secrets[f], ev.preState[f], ev.preFiles)) =>
        /\ ~HasOp("get", f) /\ ~HasOp("write", f) /\ ~HasOp("remove", f)
        /\ clients[ev.client].SyncState[f] = ev.preState[f]
        /\ disk[ev.client][f] = ev.preFiles[f]

\* One Sync skipped a secret that was still valid and fetched and wrote
\* another whose checksum had changed.
C4_Witness ==
  /\ Synced
  /\ \E f, g \in DOMAIN ev.secrets :
       /\ f # g
       /\ ev.preState[f] # NoState /\ Validate(ev.secrets[f], ev.preState[f], ev.preFiles)
       /\ ev.preState[g] # NoState /\ ev.preState[g].Checksum # ev.secrets[g].Checksum
       /\ HasOp("get", g) /\ HasOp("write", g)
       /\ disk[ev.client][g].content = ev.secrets[g].Content
  /\ ev.updated.Added = 1

\* C5: writes before deletions.  In one Sync every write comes before every
\* removal of a file and before the sweep of the directory.
C5_WriteBeforeDelete ==
  Synced =>
    \A i, j \in 1..Len(ev.ops) :
      (ev.ops[i].op = "write" /\ ev.ops[j].op \in {"remove", "cleanup"}) => i < j

\* A secret moved from filename B to filename A: the Sync wrote A, then
\* removed B.
C5_Witness ==
  /\ Synced
  /\ \E i, j \in 1..Len(ev.ops) :
       /\ i < j
       /\ ev.ops[i].op = "write" /\ ev.ops[i].ok /\ ev.ops[i].file = "A"
       /\ ev.ops[j].op = "remove" /\ ev.ops[j].ok /\ ev.ops[j].file = "B"
       /\ ev.secrets["A"].Name = "B"
  /\ ev.preFiles["B"] # NoFile /\ disk[ev.client]["B"] = NoFile
  /\ disk[ev.client]["A"].content = ev.secrets["A"].Content

C7_ErrorKeepsFile ==
  Synced =>
    \A f \in DOMAIN ev.secrets :
      /\ (HasOp("get", f) /\ ev.getOut[f] = "error") =>
           /\ FileIn(disk[ev.client], f) = FileIn(ev.preFiles, f)
           /\ clients[ev.client].SyncState[f] = ev.preState[f]
      /\ (FileIn(ev.preFiles, f) # NoFile /\ FileIn(disk[ev.client], f) = NoFile) =>
           (HasOp("get", f) /\ ev.getOut[f] = "deleted")

\* The directory held B from an earlier run, B is listed and its fetch
\* fails with a server error: B is still there, unchanged.
C7_Witness ==
  /\ Synced
  /\ "B" \in DOMAIN ev.secrets
  /\ HasOp("get", "B") /\ ev.getOut["B"] = "error"
  /\ FileIn(ev.preFiles, "B") # NoFile
  /\ disk[ev.client]["B"] = ev.preFiles["B"]
  /\ HasOp("cleanup", "")

\* The listing of the last Sync failed
ListFailed == ev.kind = "sync" /\ ~SecretList(server[ev.client], ev.listOk).ok

\* C8: a failed listing.  When SecretList fails, Sync returns the error at
\* once: nothing is fetched, written or removed, the sweep does not run,
\* SyncState and the directory are what they were, nothing is counted.
C8_ListFailure ==
  ListFailed =>
    /\ ev.err
    /\ ev.ops = <<>>
    /\ clients[ev.client].SyncState = ev.preState
    /\ disk[ev.client] = ev.preFiles
    /\ ev.updated = ZeroUpdated

\* The listing fails for a client that has files and entries from an
\* earlier pass.
C8_Witness ==
  /\ ListFailed
  /\ \E f \in Filenames : ev.preState[f] # NoState /\ FileIn(ev.preFiles, f) # NoFile
  /\ disk[ev.client] = ev.preFiles

\* The clients whose Sync ran in the pass that just ended
Visited == {rec.client : rec \in ev.catalogs} \cup ev.failed

\* C9: failure isolation.  In one run_once every active client is synced
\* whether or not the Sync of another one failed, and the error of every
\* client whose Sync failed is in the list run_once returns.
C9_Isolation ==
  ev.kind = "runonce_end" =>
    /\ Visited = ev.actives
    /\ \A c \in ev.failed : \E i \in 1..Len(ev.errors) : ev.errors[i].client = c
    /\ Len(ev.errors) >= Cardinality(ev.failed)

\* The Sync of one client failed, the other client was synced after it
\* and its secrets were written; the list returned holds the one error.
C9_Witness ==
  /\ ev.kind = "runonce_end"
  /\ Cardinality(ev.failed) = 1
  /\ Len(ev.errors) = 1
  /\ \E rec \in ev.catalogs :
       /\ rec.client \notin ev.failed
       /\ rec.errsBefore = 1
       /\ rec.complete /\ rec.names # {}
       /\ FilesIn(disk[rec.client]) = rec.names
       /\ \A f \in rec.names : clients[rec.client].SyncState[f] # NoState

\* The statement of C10 as the spec has it: at the end of every run_once
\* pass, from the polling loop or from POST /sync, the timestamp is the
\* present time if the pass had no error and what it was otherwise.
C10_Original ==
  ev.kind = "pass_end" =>
    IF ev.errors = <<>> THEN lastSuccessAt = now ELSE lastSuccessAt = ev.prev

\* What a step may do to lastSuccessAt
C10_Step ==
  /\ lastSuccessAt' >= lastSuccessAt
  /\ lastSuccessAt' # lastSuccessAt =>
       /\ ev'.kind = "pass_end" /\ ev'.thread = "poller" /\ ev'.errors = <<>>
  /\ (ev'.kind = "pass_end" /\ ev'.thread = "poller") =>
       lastSuccessAt' = IF ev'.errors = <<>> THEN now' ELSE lastSuccessAt
  /\ (ev'.kind = "pass_end" /\ ev'.thread = "api") => lastSuccessAt' = lastSuccessAt

\* C10: the last-success timestamp is set to the present time at the end of
\* a pass of the polling loop if and only if the error list of that pass is
\* empty; a pass started by POST /sync leaves it as it is; no step moves it
\* backwards.
C10_Timestamp == [][C10_Step]_vars

\* A pass of the polling loop without error ended at time 2 and moved the
\* timestamp from 1, where the pass before had put it, to 2.
C10_Witness ==
  /\ ev.kind = "pass_end" /\ ev.thread = "poller" /\ ev.errors = <<>>
  /\ ev.prev = 1 /\ now = 2 /\ lastSuccessAt = 2

\* C11: the most recent error.  At the end of every pass, of the polling
\* loop or of POST /sync, mostRecentError() returns an error of that pass
\* if the pass produced errors and nil if it produced none.
C11_Original ==
  ev.kind = "pass_end" =>
    IF ev.errors = <<>> THEN lastError = NilError
    ELSE \E i \in 1..Len(ev.errors) : lastError = ev.errors[i]

\* The time of the last pass among results that returned no error, 0 if
\* there is none
LastSuccess(results) ==
  LET good == {i \in 1..Len(results) : results[i] = <<>>}
  IN  IF good = {} THEN 0 ELSE PollInterval * (CHOOSE i \in good : \A j \in good : j <= i)

\* C12: GET /status answers 200 if and only if a successful pass has been
\* recorded and the time since it is at most 10 poll intervals; otherwise
\* it answers 503, and when a success exists but is too old the answer
\* carries the most recent error, that of the last pass.
C12_Original ==
  call.op = "status" =>
    LET last == LastSuccess(call.results)
        fresh == last # 0 /\ call.now - last <= 10 * PollInterval
    IN  /\ call.res.code = 200 <=> fresh
        /\ ~fresh => call.res.code = 503
        /\ (~fresh /\ last # 0) =>
             call.res.err = RunErr(call.results[Len(call.results)])

\* C13: client removal.  When a client that was active is absent from the
\* configuration at the next run_once, then after that run_once its entry
\* is not in the registry and its whole directory is gone, and the entry,
\* the SyncState and the files of the other client are what they were.
C13_Original ==
  call.op = "removal" =>
    /\ call.res.clients["c1"] = NoEntry
    /\ call.res.tree[call.dirOf["c1"]] = NoDir
    /\ call.res.clients["c2"] = call.before.clients["c2"]
    /\ call.res.tree[call.dirOf["c2"]] = call.before.tree[call.dirOf["c2"]]

\* C14 as the specification words it: the sweep at the end of run_once
\* leaves every regular file directly under SecretsDir, leaves the
\* directory of every client of the registry as it is, and removes every
\* directory whose name is not the name of a client of the registry.
C14_Original ==
  ev.kind = "runonce_end" =>
    /\ \A n \in TopNames :
         /\ ev.preTop[n] = "file" => top[n] = "file"
         /\ top[n] # "dir"
    /\ \A c \in ev.actives : disk[c] = ev.preDisk[c]
    /\ \A c \in Clients \ ev.actives : disk[c] = NoDir

\* The directories the sweep of the last step found that no client of the
\* registry owns (the pending cleanup has run before it), and those of
\* them it did not get rid of: all when SecretsDir could not be read, else
\* the ones whose RemoveAll failed
Unknown ==
  {c \in Clients \ ev.actives :
     ev.preDisk[c] # NoDir /\ (c \in ev.pending => ev.out.pend[c] # "ok")}
  \cup {n \in TopNames : ev.preTop[n] = "dir"}

NotRemoved == {n \in Unknown : ~ev.out.readOk \/ ev.out.sweep[n] # "ok"}

InErrors(e) == \E i \in 1..Len(ev.errors) : ev.errors[i] = e

\* C14: the top-level sweep.  The sweep at the end of run_once leaves every
\* regular file directly under SecretsDir and the directory of every
\* client of the registry as they are.  It calls RemoveAll on every
\* directory whose name is not the name of a client of the registry: the
\* directory is gone afterwards unless its RemoveAll failed, and then the
\* error is among those the pass returns and the directory is counted as
\* deleted all the same.  When SecretsDir cannot be read the sweep removes
\* and counts nothing and the pass returns that error.
C14_TopLevelSweep ==
  ev.kind = "runonce_end" =>
    /\ \A n \in TopNames :
         /\ ev.preTop[n] = "file" => top[n] = "file"
         /\ top[n] = "dir" <=> n \in NotRemoved
    /\ \A c \in ev.actives : disk[c] = ev.preDisk[c]
    /\ \A c \in Clients \ ev.actives : disk[c] # NoDir <=> c \in NotRemoved
    /\ IF ev.out.readOk
       THEN \A n \in NotRemoved : InErrors([src |-> "sweep", client |-> n])
       ELSE InErrors([src |-> "readdir", client |-> ""])
    /\ ev.swept = Cardinality({c \in ev.pending : ev.out.pend[c] = "ok"})
                  + (IF ev.out.readOk THEN Cardinality(Unknown) ELSE 0)

\* At the end of a pass the sweep found a regular file, a directory no
\* client owns and the directories of two active clients; RemoveAll of the
\* unknown directory failed: it is still there, it was counted, the pass
\* returned the error, and nothing else was touched.
C14_Witness ==
  /\ ev.kind = "runonce_end"
  /\ ev.preTop["README"] = "file" /\ top["README"] = "file"
  /\ ev.preTop["old"] = "dir" /\ top["old"] = "dir"
  /\ ev.out.sweep["old"] = "error" /\ ev.swept = 1
  /\ ev.errors = <<[src |-> "sweep", client |-> "old"]>>
  /\ ev.actives = Clients
  /\ \A c \in Clients : disk[c] # NoDir /\ disk[c] = ev.preDisk[c] /\ FilesIn(disk[c]) # {}

\* ------------------------------------------------------------------------
\* C15  Filename safety as stated: every path OutputDir.Write creates or
\* renames onto (the temporary file included) lies directly inside the
\* write directory, the final path being write_dir/derived(s); and a secret
\* whose Name or FilenameOverride contains a path separator is rejected
\* with nothing written.  Not true of the code: Filename only looks for a
\* separator in the name it derives, so the name ".." passes and the
\* temporary file is created next to the write directory, and a Name with
\* a separator is accepted when a FilenameOverride without one is set.
\* ------------------------------------------------------------------------
DirectlyInside(path, dir) ==
  Len(path) = Len(dir) + 1 /\ SubSeq(path, 1, Len(dir)) = dir

Derived(s) == IF s.FilenameOverride # NoOverride THEN s.FilenameOverride ELSE s.Name

NamesSeparator(s) ==
  \/ ContainsRune(s.Name, Separator)
  \/ s.FilenameOverride # NoOverride /\ ContainsRune(s.FilenameOverride, Separator)

\* Every path a write creates or renames onto is directly inside write_dir
C15_PathsInside ==
  call.op = "write" =>
    /\ \A p \in call.res.created \cup call.res.renamed : DirectlyInside(p, call.dir)
    /\ \A p \in call.res.renamed : p = call.dir \o <<Chars(Derived(call.secret))>>

C15_Original ==
  /\ C15_PathsInside
  /\ call.op = "write" /\ NamesSeparator(call.secret) =>
       ~call.res.ok /\ call.res.created = {} /\ call.res.renamed = {}

\* ------------------------------------------------------------------------
\* C16  As stated: if the catalog holds a secret whose Name or
\* FilenameOverride contains a path separator, Sync returns an error and
\* writes and deletes nothing.  Not so for a Name with a separator under a
\* FilenameOverride without one.  What holds: if the catalog holds a secret
\* whose derived filename (the FilenameOverride if set, else the Name)
\* contains a path separator, Sync returns an error, performs no operation
\* and leaves the SyncState and the directory as they were.
\* ------------------------------------------------------------------------
CatalogSecrets(srv) == {SecretOf(n, srv[n]) : n \in Listed(srv)}

NothingDone ==
  /\ call.err
  /\ call.ops = <<>>
  /\ call.updated = ZeroUpdated
  /\ entry.files = call.preFiles
  /\ entry.st = call.preState

C16_Original ==
  (call.op = "sync" /\ \E s \in CatalogSecrets(call.srv) : NamesSeparator(s))
    => NothingDone

C16_BadFilename ==
  (call.op = "sync"
   /\ \E s \in CatalogSecrets(call.srv) : ContainsRune(Derived(s), Separator))
    => NothingDone

\* A Sync on a directory holding a file that is no longer listed, against a
\* catalog with a secret still to be written and one with a bad filename.
C16_Witness ==
  /\ call.op = "sync"
  /\ \E s \in CatalogSecrets(call.srv) : ContainsRune(Derived(s), Separator)
  /\ \E s \in CatalogSecrets(call.srv) :
       /\ Filename(s).ok
       /\ call.preFiles # NoDir
       /\ call.preFiles[Filename(s).name] = NoFile
  /\ \E f \in Filenames :
       /\ call.preFiles # NoDir
       /\ call.preFiles[f] # NoFile
       /\ \A s \in CatalogSecrets(call.srv) : Filename(s).name # f
  /\ call.err

\* ------------------------------------------------------------------------
\* C17  As stated: if two secrets of a listing derive the same filename,
\* the listing fails as a whole, for every kind of client.  True of
\* KeywhizHTTPClient.SecretList; not of the BackupBundleClient, whose
\* constructor stores each secret under its filename and lets a later
\* secret replace an earlier one without an error.
\* ------------------------------------------------------------------------
SameFilename(parsed) ==
  \E i, j \in DOMAIN parsed :
    /\ i < j
    /\ Filename(parsed[i]).ok /\ Filename(parsed[j]).ok
    /\ Filename(parsed[i]).name = Filename(parsed[j]).name

C17_Original ==
  (call.op = "list" /\ SameFilename(call.parsed))
    => ~call.http.ok /\ ~call.bundle.ok

\* ------------------------------------------------------------------------
\* C18  Mode clamping: the permission bits of a written file are the
\* requested bits that lie within 0444 (0440 for an empty Mode), so never
\* a bit outside 0444; and a Mode that is not an octal number makes the
\* write fail with nothing written.
\* ------------------------------------------------------------------------
RECURSIVE OctalValue(_)
OctalValue(digits) ==
  IF digits = <<>> THEN 0
  ELSE 8 * OctalValue(SubSeq(digits, 1, Len(digits) - 1)) + digits[Len(digits)]

IsOctal(digits) == digits # <<>> /\ \A i \in DOMAIN digits : digits[i] \in 0..7

\* Bit i of n
Bit(n, i) == (n \div (2 ^ i)) % 2

C18_ModeClamp ==
  call.op = "mode" =>
    LET digits == call.secret.Mode
        requested == IF digits = <<>> THEN 288 ELSE OctalValue(digits)
        res == call.res
    IN  /\ res.ok =>
          /\ res.files["A"] # NoFile
          /\ \A i \in 0..15 :
               Bit(res.files["A"].mode, i) =
                 IF i \in {2, 5, 8} THEN Bit(requested, i) ELSE 0
          /\ res.state.FileInfo.Mode = res.files["A"].mode
        /\ (digits # <<>> /\ ~IsOctal(digits)) =>
             ~res.ok /\ res.files = EmptyDir

\* A write that asked for 0764 and produced 0444
C18_Witness ==
  /\ call.op = "mode"
  /\ call.res.ok
  /\ call.secret.Mode = <<0, 7, 6, 4>>
  /\ call.res.files["A"].mode = 292

\* ------------------------------------------------------------------------
\* C19  Validate(secret, state) is true exactly when the state's checksum
\* is the secret's, the secret's owner, group and mode strings are the
\* state's, the file exists, its mode, uid and gid are the state's FileInfo
\* and the SHA-256 of its content is the state's ContentHash.  So it is
\* true right after Write returned the state, and false once the file has
\* been removed or its content, mode, owner or group changed.
\* ------------------------------------------------------------------------
C19_Validate ==
  call.op = "validate" =>
    LET s == call.secret
        st == call.state
        f == Derived(s)
        exists == /\ ~ContainsRune(f, Separator)
                  /\ call.files # NoDir
                  /\ call.files[f] # NoFile
    IN  /\ call.res <=>
             /\ st.Checksum = s.Checksum
             /\ st.Owner = s.Owner /\ st.Group = s.Group /\ st.Mode = s.Mode
             /\ exists
             /\ st.FileInfo.Mode = call.files[f].mode
             /\ st.FileInfo.UID = call.files[f].uid
             /\ st.FileInfo.GID = call.files[f].gid
             /\ st.ContentHash = Sha256(call.files[f].content)
        /\ (s = out.secret /\ out.changed = "no") => call.res
        /\ (s = out.secret /\ out.changed # "no") => ~call.res

\* Validate of the written secret after the content of its file changed
C19_Witness ==
  /\ call.op = "validate"
  /\ call.secret = out.secret
  /\ out.changed = "content"
  /\ ~call.res

\* ------------------------------------------------------------------------
\* C20  Convergence after tampering.  A Sync finds a file it wrote earlier
\* (its SyncState has an entry for it) removed or changed in mode, owner or
\* content; the secret is still listed and the server answers the listing
\* and the fetch.  Then that Sync fetches the secret and writes the file
\* again, and once the filesystem has taken the write the file's content
\* and mode are those of the server's secret and Validate is true.
\* ------------------------------------------------------------------------
\* File f is not what the entry st[f] recorded when it was written
Tampered(st, files, f) ==
  /\ st[f] # NoState
  /\ \/ FileIn(files, f) = NoFile
     \/ /\ FileIn(files, f) # NoFile
        /\ \/ GetFileInfo(files[f]) # st[f].FileInfo
           \/ Sha256(files[f].content) # st[f].ContentHash

C20_Convergence ==
  ev.kind = "sync" =>
    LET c == ev.client
        l == SecretList(server[c], ev.listOk)
    IN  \A f \in Filenames :
          (/\ Tampered(ev.preState, ev.preFiles, f)
           /\ l.ok /\ f \in DOMAIN l.secrets
           /\ ev.getOut[f] = "ok")
          => /\ HasOp("get", f) /\ HasOp("write", f)
             /\ ev.wrOut[f] = "ok" =>
                  /\ disk[c][f] # NoFile
                  /\ disk[c][f].content = l.secrets[f].Content
                  /\ disk[c][f].mode = Perm(ModeValue(l.secrets[f]).mode)
                  /\ clients[c].SyncState[f] # NoState
                  /\ Validate(l.secrets[f], clients[c].SyncState[f], disk[c])

\* A Sync found the mode of a file it had written changed, and wrote the
\* file again with the mode of the secret.
C20_Witness ==
  /\ ev.kind = "sync"
  /\ \E f \in Filenames :
       /\ ev.preState[f] # NoState
       /\ FileIn(ev.preFiles, f) # NoFile
       /\ ev.preFiles[f].mode # ev.preState[f].FileInfo.Mode
       /\ ev.preFiles[f].content = disk[ev.client][f].content
       /\ HasOp("write", f)
       /\ disk[ev.client][f].mode = ev.preState[f].FileInfo.Mode
       /\ Validate(ev.secrets[f], clients[ev.client].SyncState[f], disk[ev.client])

\* ------------------------------------------------------------------------
\* C21  Update classification as stated: a secret written by a Sync counts
\* as Changed if the SyncState had an entry for its filename when the Sync
\* began, and as Added otherwise.  Not true of the code, which counts every
\* written secret as Added.
\* ------------------------------------------------------------------------
\* The filenames the last Sync wrote and stored a state for
WrittenBy ==
  {f \in Filenames :
     /\ \E i \in 1..Len(ev.ops) :
          ev.ops[i].op = "write" /\ ev.ops[i].file = f /\ ev.ops[i].ok
     /\ clients[ev.client].SyncState[f] # NoState}

C21_Original ==
  Synced =>
    /\ ev.updated.Changed = Cardinality({f \in WrittenBy : ev.preState[f] # NoState})
    /\ ev.updated.Added = Cardinality({f \in WrittenBy : ev.preState[f] = NoState})

\* ------------------------------------------------------------------------
\* C22  Count aggregation as stated: the Updated that RunOnce returns is
\* the component-wise sum of what the Sync of each active entry returned,
\* its Deleted increased by what the pending cleanup and the sweep of
\* SecretsDir removed.  Not true of the code: Updated.Add adds the other
\* side's Changed to Deleted, so the deletions of the entries are lost.
\* ------------------------------------------------------------------------
RECURSIVE SumOf(_, _)
\* Sum of one count over the Syncs of a pass (a failed Sync returns zeros)
SumOf(recs, field) ==
  IF recs = {} THEN 0
  ELSE LET rec == CHOOSE x \in recs : TRUE
       IN  rec.updated[field] + SumOf(recs \ {rec}, field)

C22_Original ==
  ev.kind = "runonce_end" =>
    /\ ev.updated.Added = SumOf(ev.catalogs, "Added")
    /\ ev.updated.Changed = SumOf(ev.catalogs, "Changed")
    /\ ev.updated.Deleted = SumOf(ev.catalogs, "Deleted") + ev.swept

\* ------------------------------------------------------------------------
\* C23  Retry policy: an attempt that fails with a status >= 500 or with a
\* network error is retried, until an attempt does neither or max_retries
\* attempts have been made; the request returns what its last attempt got,
\* so a later success makes it succeed, and a 404 is never retried.  Not
\* so for network errors: getWithRetry returns the error of the first
\* attempt that gets no response without trying again.
\* ------------------------------------------------------------------------
\* The attempt at which a request ends when exactly the attempts in
\* retried are retried
EndsAt(answers, maxRetries, retried) ==
  IF \E n \in 1..maxRetries : answers[n] \notin retried
  THEN CHOOSE n \in 1..maxRetries :
         /\ answers[n] \notin retried
         /\ \A m \in 1..(n - 1) : answers[m] \in retried
  ELSE maxRetries

\* C23 as stated: the request ends at the first attempt that is neither a
\* status >= 500 nor a network error, or at attempt max_retries, and
\* returns what that attempt got.
C23_Original ==
  (call.op = "get" /\ call.maxRetries >= 1) =>
    LET transient == {a \in Answers : a.err \/ a.status >= 500}
    IN  /\ call.res.attempts = EndsAt(call.answers, call.maxRetries, transient)
        /\ call.res.resp = call.answers[call.res.attempts]

\* The name the claim calls canonical: equal to Clean("/" + name) without its
\* leading separator
ClaimCanonical(headerName) == headerName = Tail(CleanName(<<Separator>> \o headerName))

\* C24 as stated: extractTar returns an error, and does not write the entry,
\* for every regular-file entry whose name is not equal to Clean("/" + name)
\* without its leading separator, absolute names included.
C24_Original ==
  call.op = "extract" =>
    \A i \in DOMAIN call.tarball :
      (call.tarball[i].type = "reg" /\ ~ClaimCanonical(call.tarball[i].name))
        => (~call.res.ok /\ i \notin call.res.written)

\* C25: extractTar into a destination that holds a non-directory at any
\* depth, or that is itself a file, returns an error, writes no entry and
\* leaves the destination as it was.
C25_NonEmpty ==
  (call.op = "extract" /\ (call.dest.kind = "file" \/ call.dest.files # {}))
    => /\ ~call.res.ok
       /\ call.res.written = {}
       /\ call.res.tree = call.dest

\* A restore of a writable entry into a destination whose only file lies in
\* a directory below it is refused as not empty.
C25_Witness ==
  /\ call.op = "extract"
  /\ \E f \in call.dest.files : Len(f.path) > Len(SecretsDir) + 1
  /\ \E i \in DOMAIN call.tarball :
       call.tarball[i].type = "reg" /\ Canonical(call.tarball[i].name)
  /\ ~call.res.ok
  /\ call.res.err = "not empty"

\* The files of a tree by path below the secrets directory, content and
\* permission bits
Contents(tree) ==
  {[path |-> SubSeq(f.path, Len(SecretsDir) + 1, Len(f.path)),
    content |-> f.content, perm |-> Perm(f.mode)] : f \in tree.files}

\* C26: for a tree of regular files only, extractTar of createTar of the
\* tree into an empty directory succeeds and yields the same relative file
\* paths, each with the content and the permission bits of the original.
C26_RoundTrip ==
  (call.op = "roundtrip" /\ \A f \in call.tree.files : f.type = "reg")
    => /\ call.res.ok
       /\ \A f \in call.res.tree.files : IsDirectory(SecretsDir, f.path)
       /\ Contents(call.res.tree) = Contents(call.tree)

\* A round trip of a tree with a file at the top and two files in a
\* directory, not all of the same mode.
C26_Witness ==
  /\ call.op = "roundtrip"
  /\ \A f \in call.tree.files : f.type = "reg"
  /\ {f.path : f \in call.tree.files} = {WalkPaths[1], WalkPaths[2], WalkPaths[4]}
  /\ Cardinality({f.mode : f \in call.tree.files}) = 3
  /\ Len(call.tarball) = 3
  /\ call.res.ok

\* C27: for every plaintext and every recipient key pair, Unwrap of the
\* wrapped key with the private key and decrypt of the ciphertext with the
\* unwrapped key succeed and give the plaintext back.
C27_EncryptDecrypt ==
  (call.op = "crypt" /\ call.sk = call.pk)
    => /\ call.unwrapped.ok
       /\ call.res.ok
       /\ call.res.plaintext = call.data

\* A plaintext of two different bytes went through encrypt, Unwrap and
\* decrypt with a matching key pair.
C27_Witness ==
  /\ call.op = "crypt"
  /\ call.sk = call.pk
  /\ call.data = <<0, 1>>
  /\ Len(call.ciphertext) = NonceSize + 1
  /\ call.res.ok

\* C28 as stated: a backup is taken with the sync mutex held by the backup,
\* so its snapshot holds no temporary file and no directory of a pass that
\* has files left to write.
C28_Original ==
  bk.snapshot # NoSnapshot =>
    /\ ~bk.snapshot.held
    /\ ~bk.snapshot.todo
    /\ \A f \in bk.snapshot.files : ~f.temp

\* The id the claim gives for a name and its fallback
Expected(table, name, fallback) ==
  IF name # "" /\ name \in DOMAIN table THEN table[name]
  ELSE IF fallback \in DOMAIN table THEN table[fallback]
  ELSE 0

\* C29: NewOwnership resolves uid and gid each on its own: the id of the
\* name asked for if it is not empty and is found, else the id of the
\* fallback if that is found, else 0.
C29_Fallback ==
  call.op = "ownership" =>
    /\ call.res.UID = Expected(Users, call.username, call.fallbackUser)
    /\ call.res.GID = Expected(Groups, call.groupname, call.fallbackGroup)

\* Neither the user nor the fallback user is found, no group is asked for,
\* and the fallback group is found: uid 0 with the fallback group's id.
C29_Witness ==
  /\ call.op = "ownership"
  /\ call.username = "user-doesnt-exist"
  /\ call.fallbackUser = "user-doesnt-exist"
  /\ call.groupname = ""
  /\ call.fallbackGroup = "group2"
  /\ call.res = [UID |-> 0, GID |-> 2002]

\* C30 as stated: with a poll interval of zero Run makes one pass and
\* returns nil if the pass had no errors and the first error of the pass
\* otherwise.
C30_Original ==
  (call.op = "run" /\ call.pollInterval = 0)
    => /\ call.res.returned
       /\ call.res.passes = 1
       /\ call.res.err = IF call.results[1] = <<>> THEN NilError
                         ELSE call.results[1][1]

\* C30: with a poll interval of zero Run makes one pass and returns nil if
\* the pass had no errors, the error if it had exactly one, and otherwise
\* one error made of all the errors of the pass.
C30_RunOnce ==
  (call.op = "run" /\ call.pollInterval = 0)
    => /\ call.res.returned
       /\ call.res.passes = 1
       /\ Len(call.results[1]) = 0 => call.res.err = NilError
       /\ Len(call.results[1]) = 1 => call.res.err = call.results[1][1]
       /\ Len(call.results[1]) > 1 => call.res.err = [errorf |-> call.results[1]]

\* A Run with a poll interval of zero whose pass had two errors returned
\* after that pass with an error that is neither of the two.
C30_Witness ==
  /\ call.op = "run"
  /\ call.pollInterval = 0
  /\ Len(call.results) = 2
  /\ Len(call.results[1]) = 2
  /\ call.res.returned
  /\ call.res.passes = 1
  /\ call.res.err \notin {call.results[1][1], call.results[1][2]}

\* The files a Sync wrote successfully, by the write operations of its trace
WroteOk(ops) ==
  {f \in Filenames : \E i \in 1..Len(ops) :
     ops[i].op = "write" /\ ops[i].file = f /\ ops[i].ok}

\* C31: a file that Sync wrote and then found invalid (another process had
\* changed it) has no SyncState entry after the Sync and is not counted as
\* an update, and the next Sync of the entry, for which the file is
\* therefore without a state, fetches the secret and writes it again if it
\* is still listed.
C31_PostWriteValidation ==
  (call.op = "sync" /\ ~call.err) =>
    /\ \A f \in WroteOk(call.ops) \cap call.meddle : entry.st[f] = NoState
    /\ call.updated.Added = Cardinality(WroteOk(call.ops) \ call.meddle)
    /\ \A f \in {g \in call.before : call.preState[g] = NoState} :
         f \in DOMAIN IndexByFilename(ListOf(call.srv), 1, <<>>).secrets
           => \E i, j \in 1..Len(call.ops) :
                /\ call.ops[i] = [op |-> "get", file |-> f, ok |-> TRUE, out |-> "none"]
                /\ call.ops[j].op = "write" /\ call.ops[j].file = f /\ call.ops[j].ok

\* A Sync wrote A and B, A was changed before it was validated, and the Sync
\* after it wrote A again and kept it.
C31_Witness ==
  /\ call.op = "sync"
  /\ ~call.err
  /\ call.before = {"A"}
  /\ call.preState["A"] = NoState
  /\ call.preState["B"] # NoState
  /\ call.meddle = {}
  /\ WroteOk(call.ops) = {"A"}
  /\ entry.st["A"] # NoState

\* C32: when the write of a fetched secret fails, the file of that name is
\* what it was before the Sync, the SyncState entry of that name is what it
\* was (or is still absent), and the other listed secrets that are due and
\* can be fetched and written are written.
C32_WriteFailure ==
  Synced =>
    \A f \in DOMAIN ev.secrets :
      (/\ ~StillValid(ev.secrets[f], ev.preState, ev.preFiles, f)
       /\ ev.getOut[f] = "ok"
       /\ ev.wrOut[f] # "ok")
      => /\ FileIn(disk[ev.client], f) = FileIn(ev.preFiles, f)
         /\ clients[ev.client].SyncState[f] = ev.preState[f]
         /\ \A g \in DOMAIN ev.secrets \ {f} :
              (/\ ~StillValid(ev.secrets[g], ev.preState, ev.preFiles, g)
               /\ ev.getOut[g] = "ok"
               /\ ev.wrOut[g] = "ok")
              => /\ \E i \in 1..Len(ev.ops) :
                      ev.ops[i] = [op |-> "write", file |-> g, ok |-> TRUE, out |-> ""]
                 /\ FileIn(disk[ev.client], g) # NoFile
                 /\ disk[ev.client][g].content = ev.secrets[g].Content
                 /\ clients[ev.client].SyncState[g] # NoState

\* The directory held B from an earlier run and the write of B failed: B is
\* the old file still and has no state, and the Sync went on to its sweep.
C32_Witness ==
  /\ Synced
  /\ "B" \in DOMAIN ev.secrets
  /\ ev.getOut["B"] = "ok"
  /\ ev.wrOut["B"] # "ok"
  /\ \E i \in 1..Len(ev.ops) : ev.ops[i].op = "write" /\ ev.ops[i].file = "B" /\ ~ev.ops[i].ok
  /\ FileIn(ev.preFiles, "B") # NoFile
  /\ disk[ev.client]["B"] = ev.preFiles["B"]
  /\ clients[ev.client].SyncState["B"] = NoState
  /\ HasOp("cleanup", "")

\* C33: whenever WriteFileAtomically has returned, with success or with an
\* error of any step, the temporary path names no file.
C33_NoLeakedTemporary ==
  (wr.pc = "idle" /\ wr.ret # "none") => dirent["tmp"] = 0

\* A call that had created its temporary file and set its mode returned an
\* error, and the temporary path is free.
C33_Witness ==
  /\ wr.pc = "idle"
  /\ wr.ret = "error"
  /\ wr.n >= 1
  /\ inode[wr.n] # NoFile
  /\ inode[wr.n].mode # 0
  /\ dirent["tmp"] = 0
  /\ dirent["final"] # wr.n

\* C34 as the specification words it: after LoadClients, an entry whose
\* config is the one configured is kept with its SyncState and has
\* RebuildClient invoked, an entry whose config changed is a freshly built
\* one with an empty SyncState, and an entry configured no more is out of
\* the registry and in the pending cleanup.
C34_Original ==
  call.op = "load" =>
    \A c \in Clients :
      LET pre == call.cl[c]
          now1 == call.res.clients[c]
      IN  /\ (pre # NoEntry /\ call.conf[c] = pre.config) =>
               (now1 = pre /\ c \in call.res.reloaded)
          /\ (pre # NoEntry /\ call.conf[c] # 0 /\ call.conf[c] # pre.config) =>
               now1 = [config |-> call.conf[c], SyncState |-> NoSyncState]
          /\ (pre # NoEntry /\ call.conf[c] = 0) =>
               (now1 = NoEntry /\ c \in call.res.pending)

\* C34: the entry lifecycle of LoadClients.  An entry whose config is the
\* one configured is kept with its SyncState and has RebuildClient invoked
\* on its client; an entry whose config changed is replaced by a freshly
\* built one with an empty SyncState when buildClient succeeds, and is kept
\* with its old config and SyncState, RebuildClient not invoked, when
\* buildClient fails; an entry configured no more is out of the registry
\* and in the pending cleanup.
C34_EntryLifecycle ==
  call.op = "load" =>
    \A c \in Clients :
      LET pre == call.cl[c]
          now1 == call.res.clients[c]
          changed == pre # NoEntry /\ call.conf[c] # 0 /\ call.conf[c] # pre.config
      IN  /\ (pre # NoEntry /\ call.conf[c] = pre.config) =>
               (now1 = pre /\ c \in call.res.reloaded)
          /\ (changed /\ call.buildOk[c]) =>
               (/\ now1 = [config |-> call.conf[c], SyncState |-> NoSyncState]
                /\ c \notin call.res.reloaded)
          /\ (changed /\ ~call.buildOk[c]) =>
               (now1 = pre /\ c \notin call.res.reloaded)
          /\ (pre # NoEntry /\ call.conf[c] = 0) =>
               (now1 = NoEntry /\ c \in call.res.pending /\ c \notin call.res.reloaded)

\* Both clients had synced their secrets; c1's config changed and c2's did
\* not: the load gave c1 a new entry with an empty SyncState and kept c2's
\* entry, SyncState included, reloading its client.
C34_Witness ==
  /\ call.op = "load"
  /\ call.cl["c1"] = [config |-> 1, SyncState |-> SyncedState]
  /\ call.cl["c2"] = [config |-> 1, SyncState |-> SyncedState]
  /\ SyncedState # NoSyncState
  /\ call.conf = [c \in Clients |-> IF c = "c1" THEN 2 ELSE 1]
  /\ call.res.clients["c1"] = [config |-> 2, SyncState |-> NoSyncState]
  /\ call.res.clients["c2"] = call.cl["c2"]
  /\ call.res.reloaded = {"c2"}
  /\ call.res.pending = {}

\* C35: bundle fetchability.  For a bundle client that could be built,
\* every filename of its listing can be fetched the way Sync fetches it:
\* Secret of the listed secret's Name succeeds and returns the secret whose
\* filename is the one listed.
C35_Original ==
  (call.op = "list" /\ call.bundle.ok) =>
    \A f \in DOMAIN call.bundle.secrets :
      /\ call.gets[f].ok
      /\ Filename(call.gets[f].secret) = [ok |-> TRUE, name |-> f]

\* C36: bundle-restore mode.  For a Syncer built by NewSyncerFromFile,
\* RunOnce reloads no client configuration (the pendingCleanup of
\* LoadClients is nil) and the pass runs to completion: it returns its
\* counts and errors after syncing the entry.
C36_Original ==
  (call.op = "restore" /\ call.built) =>
    /\ ~call.res.reloaded
    /\ call.res.pendingCleanup = "nil"
    /\ call.res.outcome = "returned"

\* What a Sync did to the secrets: fetches, writes and removals
Touched(ops) == {i \in DOMAIN ops : ops[i].op \in {"get", "write", "remove"}}

\* C37 as the specification words it: when a pass of RunOnce returned no
\* error and nothing changed since, the next pass fetches no secret, writes
\* and removes nothing and returns Updated{0, 0, 0}.
C37_Original ==
  /\ (ev.kind = "sync" /\ ev.quiet.q \in {"yes", "retrying"}) =>
       (Touched(ev.ops) = {} /\ ev.updated = ZeroUpdated
        /\ disk[ev.client] = ev.preFiles)
  /\ (ev.kind = "runonce_end" /\ ev.quiet.q \in {"yes", "retrying"}) =>
       (ev.updated = ZeroUpdated /\ disk = ev.preDisk)

\* C37: idempotence of a pass.  When a pass of RunOnce returned no error
\* and neither the configuration, the server nor the files changed since,
\* the next pass fetches, writes and removes in a client directory only
\* what the earlier pass logged a failure for and went on (a secret whose
\* fetch or write failed, an entry the sweep could not remove, the secrets
\* of a client that could not be built), leaves every other SyncState
\* entry and file as they are, and its pending cleanup and top-level sweep
\* remove nothing.  When the earlier pass logged no failure, the next pass
\* fetches no secret, writes and removes nothing and returns
\* Updated{0, 0, 0}.
C37_Idempotent ==
  /\ (ev.kind = "sync" /\ ev.quiet.q \in {"yes", "retrying"}) =>
       /\ \A i \in Touched(ev.ops) : <<ev.client, ev.ops[i].file>> \in ev.quiet.failed
       /\ \A f \in Filenames : <<ev.client, f>> \notin ev.quiet.failed =>
            /\ clients[ev.client].SyncState[f] = ev.preState[f]
            /\ FileIn(disk[ev.client], f) = FileIn(ev.preFiles, f)
  /\ (ev.kind = "sync" /\ ev.quiet.q = "yes") =>
       (Touched(ev.ops) = {} /\ ev.updated = ZeroUpdated
        /\ disk[ev.client] = ev.preFiles
        /\ clients[ev.client].SyncState = ev.preState)
  /\ (ev.kind = "runonce_end" /\ ev.quiet.q \in {"yes", "retrying"}) =>
       (disk = ev.preDisk /\ top = ev.preTop /\ ev.swept = 0)
  /\ (ev.kind = "runonce_end" /\ ev.quiet.q = "yes") => ev.updated = ZeroUpdated

\* A first pass failed to store one secret of a client and returned no
\* error; the next pass, with nothing changed in between, fetched and wrote
\* that secret alone, removed nothing, and returned Updated{1, 0, 0}.
C37_Witness ==
  /\ ev.kind = "runonce_end" /\ ev.quiet.q = "retrying"
  /\ Cardinality(ev.quiet.failed) = 1
  /\ ev.actives = Clients /\ ev.done = Clients /\ ev.errors = <<>>
  /\ \A c \in Clients : FilesIn(disk[c]) = {"A", "B"}
  /\ \A c \in Clients : \A f \in Filenames : clients[c].SyncState[f] # NoState
  /\ ev.updated = [Added |-> 1, Changed |-> 0, Deleted |-> 0]
  /\ ev.swept = 0

\* C38: no stale state.  After a Sync that returns no error, every filename
\* with a SyncState entry is in the catalog listed by that Sync, and its
\* entry is either the one an earlier Sync left (the secret was not fetched,
\* or its fetch or write failed) or the result of a fetch that succeeded
\* followed by a write that succeeded in this Sync; a fetch answered with
\* SecretDeleted leaves no entry.
C38_NoStaleState ==
  (ev.kind = "sync" /\ ~ev.err) =>
    \A f \in Filenames :
      LET state == clients[ev.client].SyncState[f]
          fetched == \E i \in DOMAIN ev.ops : ev.ops[i].op = "get" /\ ev.ops[i].file = f
          written == \E i \in DOMAIN ev.ops :
                       ev.ops[i].op = "write" /\ ev.ops[i].file = f /\ ev.ops[i].ok
      IN  /\ state # NoState =>
               /\ f \in DOMAIN ev.secrets
               /\ \/ (~fetched /\ state = ev.preState[f])
                  \/ (fetched /\ ~written /\ ev.getOut[f] # "deleted" /\ state = ev.preState[f])
                  \/ (fetched /\ written /\ ev.getOut[f] = "ok" /\ ev.wrOut[f] = "ok")
          /\ (fetched /\ ev.getOut[f] = "deleted") => state = NoState

\* The entry had written A and B; the server dropped A and changed nothing
\* else: the next Sync returned no error, removed the state of A and kept
\* that of B.
C38_Witness ==
  /\ ev.kind = "sync" /\ ~ev.err
  /\ ev.preState["A"] # NoState /\ ev.preState["B"] # NoState
  /\ DOMAIN ev.secrets = {"B"}
  /\ clients[ev.client].SyncState["A"] = NoState
  /\ clients[ev.client].SyncState["B"] = ev.preState["B"]

\* C39: backup pair consistency.  After any sequence of calls of Backup
\* that have returned, failed and overlapping ones included, when both the
\* file at BackupPath and the file at BackupKeyPath exist, the key wrapped
\* in the second opens the ciphertext in the first.
C39_Original ==
  (/\ \A p \in Requests : pair.proc[p].pc = "idle"
   /\ pair.backup # NoFile /\ pair.key # NoFile) =>
    LET u == Unwrap(pair.key, PrivateKey("r1"))
    IN  u.ok /\ Decrypt(pair.backup, u.key).ok

====
